---------------------------- MODULE Spec2Model ----------------------------
(***************************************************************************)
(* Model of the ingestion subsystem of the email metadata analytics        *)
(* platform: src/src/ingest/{csv_parser,size_parser,email_parser,          *)
(* normalizer,pipeline}.py, src/src/cache_manager.py and src/src/config.py *)
(*                                                                         *)
(* A Python str is a sequence of one-character strings.  Python's None is  *)
(* the value None.  A raised exception is a tagged value, never a chosen   *)
(* result.                                                                 *)
(***************************************************************************)
EXTENDS Integers, Sequences, FiniteSets, TLC

(***************************************************************************)
(* Python str primitives                                                   *)
(***************************************************************************)
\* Python's None where a str may stand: no str of the model equals it
None == <<"None">>

Digits == {"0", "1", "2", "3", "4", "5", "6", "7", "8", "9"}

UpperChars == <<"A", "B", "C", "D", "E", "F", "G", "H", "I", "J", "K", "L", "M",
                "N", "O", "P", "Q", "R", "S", "T", "U", "V", "W", "X", "Y", "Z">>

LowerChars == <<"a", "b", "c", "d", "e", "f", "g", "h", "i", "j", "k", "l", "m",
                "n", "o", "p", "q", "r", "s", "t", "u", "v", "w", "x", "y", "z">>

Range(f) == {f[i] : i \in DOMAIN f}

\* str.isspace for the characters of the model: what strip() removes and \s matches
Min(S) == CHOOSE x \in S : \A y \in S : x <= y

Max(S) == CHOOSE x \in S : \A y \in S : y <= x

Whitespace == {" ", "\t", "\r", "\n"}

\* regex \w
WordChars == Digits \cup Range(UpperChars) \cup Range(LowerChars) \cup {"_"}

DigitValue(c) ==
    CASE c = "0" -> 0 [] c = "1" -> 1 [] c = "2" -> 2 [] c = "3" -> 3 [] c = "4" -> 4
      [] c = "5" -> 5 [] c = "6" -> 6 [] c = "7" -> 7 [] c = "8" -> 8 [] c = "9" -> 9

LowerChar(c) ==
    IF c \in Range(UpperChars)
    THEN LowerChars[CHOOSE i \in DOMAIN UpperChars : UpperChars[i] = c]
    ELSE c

UpperChar(c) ==
    IF c \in Range(LowerChars)
    THEN UpperChars[CHOOSE i \in DOMAIN LowerChars : LowerChars[i] = c]
    ELSE c

\* str.lower()
Lower(s) == [i \in DOMAIN s |-> LowerChar(s[i])]

\* s[a-1:b] for 1-based a..b, empty when a > b
Slice(s, a, b) == IF a > b THEN <<>> ELSE SubSeq(s, a, b)

\* index of the first / last character of s not in chars (0 / Len(s)+1 when none)
FirstNotIn(s, chars) ==
    IF \E i \in DOMAIN s : s[i] \notin chars
    THEN CHOOSE i \in DOMAIN s : s[i] \notin chars /\ \A j \in 1..(i - 1) : s[j] \in chars
    ELSE Len(s) + 1

LastNotIn(s, chars) ==
    IF \E i \in DOMAIN s : s[i] \notin chars
    THEN CHOOSE i \in DOMAIN s : s[i] \notin chars /\ \A j \in (i + 1)..Len(s) : s[j] \in chars
    ELSE 0

\* str.strip(chars), str.rstrip(chars), str.strip()
StripChars(s, chars) == Slice(s, FirstNotIn(s, chars), LastNotIn(s, chars))

RStripChars(s, chars) == Slice(s, 1, LastNotIn(s, chars))

Strip(s) == StripChars(s, Whitespace)

\* sub occurs in s at 1-based position p
OccursAt(s, sub, p) ==
    /\ p >= 1
    /\ p + Len(sub) - 1 <= Len(s)
    /\ \A k \in 1..Len(sub) : s[p + k - 1] = sub[k]

\* str.find from 1-based position from: first position >= from, 0 when none
Find(s, sub, from) ==
    IF \E p \in from..Len(s) : OccursAt(s, sub, p)
    THEN CHOOSE p \in from..Len(s) :
             OccursAt(s, sub, p) /\ \A q \in from..(p - 1) : ~OccursAt(s, sub, q)
    ELSE 0

\* str.split(sep): always at least one part
RECURSIVE Split(_, _)
Split(s, sep) ==
    LET p == Find(s, sep, 1)
    IN IF p = 0 THEN <<s>>
       ELSE <<Slice(s, 1, p - 1)>> \o Split(Slice(s, p + Len(sep), Len(s)), sep)

\* str.split(sep, 1)
Split1(s, sep) ==
    LET p == Find(s, sep, 1)
    IN IF p = 0 THEN <<s>>
       ELSE <<Slice(s, 1, p - 1), Slice(s, p + Len(sep), Len(s))>>

\* sep.join(parts)
RECURSIVE Join(_, _)
Join(parts, sep) ==
    IF parts = <<>> THEN <<>>
    ELSE IF Len(parts) = 1 THEN parts[1]
    ELSE parts[1] \o sep \o Join(Tail(parts), sep)

\* re.sub(r"\s+", " ", s): every maximal run of whitespace becomes one space
RECURSIVE CollapseWhitespace(_)
CollapseWhitespace(s) ==
    IF s = <<>> THEN <<>>
    ELSE IF s[1] \in Whitespace
         THEN <<" ">> \o CollapseWhitespace(Slice(s, FirstNotIn(s, Whitespace), Len(s)))
         ELSE <<s[1]>> \o CollapseWhitespace(Tail(s))

\* the decimal digits of s as a number (s all digits)
RECURSIVE DigitsToNat(_)
DigitsToNat(s) ==
    IF s = <<>> THEN 0
    ELSE 10 * DigitsToNat(Slice(s, 1, Len(s) - 1)) + DigitValue(s[Len(s)])

AllIn(s, chars) == \A i \in DOMAIN s : s[i] \in chars

RECURSIVE Pow(_, _)
Pow(b, e) == IF e = 0 THEN 1 ELSE b * Pow(b, e - 1)


(***************************************************************************)
(* src/src/ingest/csv_parser.py                                            *)
(***************************************************************************)
\* DateStartMatch for the date alone: ^\d{1,2}/\d{1,2}/\d{4}
DateStartMatch_DateAlone(s) ==
    \E a \in 1..2, b \in 1..2 :
        LET slash1 == a + 1
            slash2 == slash1 + b + 1
        IN /\ slash2 + 4 <= Len(s)
           /\ AllIn(Slice(s, 1, a), Digits)
           /\ s[slash1] = "/"
           /\ AllIn(Slice(s, slash1 + 1, slash1 + b), Digits)
           /\ s[slash2] = "/"
           /\ AllIn(Slice(s, slash2 + 1, slash2 + 4), Digits)

\* _DATE_START_RE.match(s): ^\d{1,2}/\d{1,2}/\d{4}\s+\d{1,2}:\d{2}
DateStartMatch(s) ==
    \E a \in 1..2, b \in 1..2, h \in 1..2 :
        LET slash1 == a + 1
            slash2 == slash1 + b + 1
            ws == slash2 + 5
            \* \s+ is followed by a digit, so it takes the whole run
            hour == ws + FirstNotIn(Slice(s, ws, Len(s)), Whitespace) - 1
            colon == hour + h
        IN /\ colon + 2 <= Len(s)
           /\ hour > ws
           /\ AllIn(Slice(s, 1, a), Digits)
           /\ s[slash1] = "/"
           /\ AllIn(Slice(s, slash1 + 1, slash1 + b), Digits)
           /\ s[slash2] = "/"
           /\ AllIn(Slice(s, slash2 + 1, slash2 + 4), Digits)
           /\ AllIn(Slice(s, hour, hour + h - 1), Digits)
           /\ s[colon] = ":"
           /\ AllIn(Slice(s, colon + 1, colon + 2), Digits)

\* the while loop of _parse_csv_fields from index i (1-based) with its locals
RECURSIVE ScanFields(_, _, _, _, _)
ScanFields(line, i, fields, current, in_quotes) ==
    IF i > Len(line)
    THEN \* flush remaining, pad to 4 fields
         LET flushed == Append(fields, Strip(current))
         IN [k \in 1..4 |-> IF k <= Len(flushed) THEN flushed[k] ELSE <<>>]
    ELSE LET ch == line[i]
         IN IF ch = "\""
            THEN IF in_quotes
                 THEN IF i + 1 <= Len(line) /\ line[i + 1] = "\""
                      THEN ScanFields(line, i + 2, fields, Append(current, "\""), TRUE)
                      ELSE ScanFields(line, i + 1, fields, current, FALSE)
                 ELSE ScanFields(line, i + 1, fields, current, TRUE)
            ELSE IF ch = "," /\ ~in_quotes
                 THEN LET closed == Append(fields, Strip(current))
                      IN IF Len(closed) = 3
                         THEN LET to_blob == Strip(Slice(line, i + 1, Len(line)))
                              IN Append(closed, Strip(RStripChars(to_blob, {","})))
                         ELSE ScanFields(line, i + 1, closed, <<>>, in_quotes)
                 ELSE ScanFields(line, i + 1, fields, Append(current, ch), in_quotes)

\* _parse_csv_fields(line): [date, size, from, to_blob]
parse_csv_fields(line) == ScanFields(line, 1, <<>>, <<>>, FALSE)

\* The generator iter_raw_lines as a value: the index of the next physical
\* line to read, the buffered logical line and where the generator stands:
\* "start" (not yet run), "loop" (suspended at the yield inside the for
\* loop), "flush" (suspended at the final yield), "closed" (returned, the
\* with block left).
NewGenerator == [pos |-> 1, current_line |-> None, at |-> "start"]

\* the for loop over the physical lines from gen.pos up to the next yield or
\* the end of the input
RECURSIVE RawLineLoop(_, _, _)
RawLineLoop(lines, pos, current_line) ==
    IF pos > Len(lines)
    THEN IF current_line # None
         THEN [yielded |-> current_line,
               gen |-> [pos |-> pos, current_line |-> None, at |-> "flush"]]
         ELSE [yielded |-> None,
               gen |-> [pos |-> pos, current_line |-> None, at |-> "closed"]]
    ELSE LET raw_line == RStripChars(RStripChars(lines[pos], {"\n"}), {"\r"})
         IN IF Strip(raw_line) = <<>>
            THEN RawLineLoop(lines, pos + 1, current_line)
            ELSE IF DateStartMatch(raw_line)
                 THEN IF current_line # None
                      THEN [yielded |-> current_line,
                            gen |-> [pos |-> pos + 1, current_line |-> raw_line,
                                     at |-> "loop"]]
                      ELSE RawLineLoop(lines, pos + 1, raw_line)
                 ELSE IF current_line # None
                      THEN RawLineLoop(lines, pos + 1,
                                       current_line \o <<" ">> \o Strip(raw_line))
                      ELSE RawLineLoop(lines, pos + 1, current_line)

\* next(gen) on iter_raw_lines over an opened file holding `lines`:
\* yielded = None stands for StopIteration
iter_raw_lines_next(lines, gen) ==
    CASE gen.at = "start" ->
           IF lines = <<>>
           THEN \* header = f.readline() is empty: return
                [yielded |-> None, gen |-> [gen EXCEPT !.at = "closed"]]
           ELSE RawLineLoop(lines, 2, None)
      [] gen.at = "loop" -> RawLineLoop(lines, gen.pos, gen.current_line)
      [] gen.at = "flush" -> [yielded |-> None, gen |-> [gen EXCEPT !.at = "closed"]]
      [] OTHER -> [yielded |-> None, gen |-> gen]

\* list(iter_raw_lines(path)) for a readable file
RECURSIVE DrainRawLines(_, _)
DrainRawLines(lines, gen) ==
    LET step == iter_raw_lines_next(lines, gen)
    IN IF step.yielded = None THEN <<>>
       ELSE <<step.yielded>> \o DrainRawLines(lines, step.gen)

iter_raw_lines(lines) == DrainRawLines(lines, NewGenerator)

\* one dict yielded by parse_csv for a logical line
parse_csv_row(line) ==
    LET fields == parse_csv_fields(line)
    IN [date |-> fields[1], size |-> fields[2], from_raw |-> fields[3],
        to_raw |-> fields[4]]

(***************************************************************************)
(* src/src/ingest/size_parser.py                                           *)
(***************************************************************************)
\* _MULTIPLIERS.get(suffix, 1) for the upper-cased suffix ("" when absent)
Multiplier(suffix) ==
    CASE suffix = <<>> -> 1
      [] suffix = <<"B">> -> 1
      [] suffix = <<"K">> -> 1024
      [] suffix = <<"M">> -> 1024 * 1024
      [] suffix = <<"G">> -> 1024 * 1024 * 1024
      [] OTHER -> 1

SizeSuffixChars == {"B", "K", "M", "G", "b", "k", "m", "g"}

\* _SIZE_RE.match(t): ^\s*([\d.]+)\s*([BKMG]?)\s*$ with re.IGNORECASE;
\* <<group 1, group 2>> or None
SizeMatch(t) ==
    LET numStart == FirstNotIn(t, Whitespace)
        afterNum == Slice(t, numStart, Len(t))
        numLen == FirstNotIn(afterNum, Digits \cup {"."}) - 1
        number == Slice(afterNum, 1, numLen)
        rest == Slice(afterNum, numLen + 1, Len(afterNum))
        sufStart == FirstNotIn(rest, Whitespace)
        hasSuffix == sufStart <= Len(rest) /\ rest[sufStart] \in SizeSuffixChars
        suffix == IF hasSuffix THEN <<rest[sufStart]>> ELSE <<>>
        tail == Slice(rest, sufStart + (IF hasSuffix THEN 1 ELSE 0), Len(rest))
    IN IF numLen >= 1 /\ AllIn(tail, Whitespace)
       THEN <<number, suffix>>
       ELSE None

\* float(text) for text over digits and ".": a ValueError unless it has a
\* digit and at most one "."
FloatParses(text) ==
    /\ \E i \in DOMAIN text : text[i] \in Digits
    /\ Cardinality({i \in DOMAIN text : text[i] = "."}) <= 1

\* floor((q + r / den) * mult) for mult a power of 1024, one factor of 1024
\* at a time (TLC's integers are 32 bits wide, Python's are not: no
\* intermediate product may overflow)
RECURSIVE ScaleTruncated(_, _, _, _)
ScaleTruncated(q, r, den, mult) ==
    IF mult = 1 THEN q
    ELSE ScaleTruncated(q * 1024 + (r * 1024) \div den, (r * 1024) % den, den,
                        mult \div 1024)

\* int(float(text) * mult): the decimal value times mult, truncated.  The
\* product with a power of two is exact in binary floating point, so for
\* the short literals of the model the truncation is that of the decimal value.
TruncatedProduct(text, mult) ==
    LET dot == Find(text, <<".">>, 1)
        whole == IF dot = 0 THEN text ELSE Slice(text, 1, dot - 1)
        frac == IF dot = 0 THEN <<>> ELSE Slice(text, dot + 1, Len(text))
    IN ScaleTruncated(DigitsToNat(whole), DigitsToNat(frac), Pow(10, Len(frac)), mult)

\* parse_size(s): [tag |-> "int", value |-> n], [tag |-> "None"] or
\* [tag |-> "raise", exc |-> "ValueError"] (float() on group 1)
parse_size(s) ==
    IF s = None \/ s = <<>>
    THEN [tag |-> "None"]
    ELSE LET m == SizeMatch(Strip(s))
         IN IF m = None
            THEN [tag |-> "None"]
            ELSE IF ~FloatParses(m[1])
                 THEN [tag |-> "raise", exc |-> "ValueError"]
                 ELSE [tag |-> "int",
                       value |-> TruncatedProduct(m[1],
                                     Multiplier([i \in DOMAIN m[2] |-> UpperChar(m[2][i])]))]

(***************************************************************************)
(* src/src/ingest/normalizer.py                                            *)
(***************************************************************************)
\* normalize_email(email)
normalize_email(email) == Lower(Strip(email))

\* name.strip().strip('"').strip("'").strip()
StripQuotes(s) == Strip(StripChars(StripChars(Strip(s), {"\""}), {"'"}))

\* normalize_name(name)
normalize_name(name) ==
    LET cleaned == CollapseWhitespace(StripQuotes(name))
    IN IF \E i \in DOMAIN cleaned : cleaned[i] = ","
       THEN LET parts == Split1(cleaned, <<",">>)
                last == Strip(parts[1])
                first == Strip(parts[2])
            IN IF Len(parts) = 2 /\ first # <<>> /\ last # <<>>
                  /\ ~(\E i \in DOMAIN cleaned : cleaned[i] = "@")
               THEN first \o <<" ">> \o last
               ELSE cleaned
       ELSE cleaned

(***************************************************************************)
(* src/src/ingest/email_parser.py                                          *)
(***************************************************************************)
\* length of the longest run of characters of chars in s from position p
RunLen(s, p, chars) == FirstNotIn(Slice(s, p, Len(s)), chars) - 1

\* The ways "?'?([^"<]*?)'?"?\s* can match the whole of seg (which holds no
\* "<"): <<q1, a1, k, a2, q2>> says whether each optional quote is taken and
\* how long the display name is.
NameSplits(seg) ==
    {c \in {0, 1} \X {0, 1} \X (0..Len(seg)) \X {0, 1} \X {0, 1} :
        LET q1 == c[1]
            a1 == c[2]
            k == c[3]
            a2 == c[4]
            q2 == c[5]
            nameFrom == q1 + a1 + 1
            after == nameFrom + k
        IN /\ after + a2 + q2 - 1 <= Len(seg)
           /\ q1 = 1 => seg[1] = "\""
           /\ a1 = 1 => seg[q1 + 1] = "'"
           /\ \A i \in nameFrom..(after - 1) : seg[i] # "\""
           /\ a2 = 1 => seg[after] = "'"
           /\ q2 = 1 => seg[after + a2] = "\""
           /\ AllIn(Slice(seg, after + a2 + q2, Len(seg)), Whitespace)}

\* the order in which the regex engine tries them: an optional quote taken
\* before left out (greedy ?), a shorter name before a longer one (lazy *?)
SplitRank(c, n) ==
    ((((1 - c[1]) * 2 + (1 - c[2])) * (n + 1) + c[3]) * 2 + (1 - c[4])) * 2 + (1 - c[5])

\* _ADDR_RE matched at start position s: whether it matches (found), group 1
\* (name) and group 2 (email)
AddrMatchAt(raw, s) ==
    LET lt == Find(raw, <<"<">>, s)
        gt == IF lt = 0 THEN 0 ELSE Find(raw, <<">">>, lt + 1)
        seg == Slice(raw, s, lt - 1)
        splits == NameSplits(seg)
    IN IF lt = 0 \/ gt = 0 \/ gt = lt + 1 \/ splits = {}
       THEN [found |-> FALSE]
       ELSE LET c == CHOOSE x \in splits :
                        \A y \in splits : SplitRank(x, Len(seg)) <= SplitRank(y, Len(seg))
            IN [found |-> TRUE,
                name |-> Slice(seg, c[1] + c[2] + 1, c[1] + c[2] + c[3]),
                email |-> Slice(raw, lt + 1, gt - 1)]

\* _ADDR_RE.search(raw): the match at the leftmost start position that has one
AddrSearch(raw) ==
    LET starts == {s \in 1..Len(raw) : AddrMatchAt(raw, s).found}
    IN IF starts = {} THEN [found |-> FALSE]
       ELSE AddrMatchAt(raw, CHOOSE s \in starts : \A t \in starts : s <= t)

BareLocalChars == WordChars \cup {".", "+", "-"}

BareDomainChars == WordChars \cup {".", "-"}

\* _BARE_EMAIL_RE matched at start position s: [\w.+-]+@[\w.-]+\.\w+ ; the
\* matched text or None
BareMatchAt(raw, s) ==
    LET localLen == RunLen(raw, s, BareLocalChars)
        at == s + localLen
        domLen == RunLen(raw, at + 1, BareDomainChars)
        dots == {p \in (at + 2)..(at + domLen - 1) :
                     raw[p] = "." /\ raw[p + 1] \in WordChars}
    IN IF localLen = 0 \/ at > Len(raw) \/ raw[at] # "@" \/ dots = {}
       THEN None
       ELSE LET dot == CHOOSE p \in dots : \A q \in dots : q <= p
            IN Slice(raw, s, dot + RunLen(raw, dot + 1, WordChars))

\* a search that takes any text with an '@' in it
BareSearch_AnyAt(raw) ==
    IF \E i \in DOMAIN raw : raw[i] = "@" THEN raw ELSE None

\* _BARE_EMAIL_RE.search(raw)
BareSearch(raw) ==
    LET starts == {s \in 1..Len(raw) : BareMatchAt(raw, s) # None}
    IN IF starts = {} THEN None
       ELSE BareMatchAt(raw, CHOOSE s \in starts : \A t \in starts : s <= t)

ImceaexPrefix == <<"i", "m", "c", "e", "a", "e", "x", "-">>

ImceaexMarker == <<"_", "c", "n", "=", "r", "e", "c", "i", "p", "i", "e", "n", "t", "s",
                   "_", "c", "n", "=">>

\* (\w+)@([\w.]+) matched at position user, \w+ being userLen long
\* _IMCEAEX_RE matched at start position s:
\* IMCEAEX-.*_CN=RECIPIENTS_CN=(\w+)@([\w.]+) with re.IGNORECASE;
\* whether it matches (found), group 1 (user) and group 2 (domain)
ImceaexGroupsAt(email, user, userLen) ==
    LET at == user + userLen
    IN IF /\ userLen >= 1
          /\ at <= Len(email)
          /\ email[at] = "@"
          /\ RunLen(email, at + 1, WordChars \cup {"."}) >= 1
       THEN [found |-> TRUE,
             user |-> Slice(email, user, at - 1),
             domain |-> Slice(email, at + 1,
                              at + RunLen(email, at + 1, WordChars \cup {"."}))]
       ELSE [found |-> FALSE]

ImceaexGroups(email, user) ==
    ImceaexGroupsAt(email, user, RunLen(email, user, WordChars))

ImceaexMatchAt(email, s) ==
    LET body == s + Len(ImceaexPrefix)
        markers == {p \in body..Len(email) :
                       /\ OccursAt(Lower(email), ImceaexMarker, p)
                       \* .* stops at a newline
                       /\ \A q \in body..(p - 1) : email[q] # "\n"
                       /\ ImceaexGroups(email, p + Len(ImceaexMarker)).found}
    IN IF ~OccursAt(Lower(email), ImceaexPrefix, s) \/ markers = {}
       THEN [found |-> FALSE]
       ELSE \* .* is greedy: the last marker after which the groups match
            ImceaexGroups(email, Max(markers) + Len(ImceaexMarker))

\* _IMCEAEX_RE.search(email)
ImceaexSearch(email) ==
    LET starts == {s \in 1..Len(email) : ImceaexMatchAt(email, s).found}
    IN IF starts = {} THEN [found |-> FALSE]
       ELSE ImceaexMatchAt(email, Min(starts))

\* resolve_imceaex(email)
ResolveMatch(email, m) ==
    IF m.found
    THEN Lower(m.user) \o <<"@">> \o Lower(m.domain)
    ELSE Lower(email)

resolve_imceaex(email) == ResolveMatch(email, ImceaexSearch(email))

\* ParseMatches that takes the bracketed text with its whitespace
ParseMatches_NoStrip(token, m, bare) ==
    IF token = <<>> THEN <<<<>>, <<>>>>
    ELSE IF m.found
         THEN LET name == IF m.name # <<>> THEN StripQuotes(m.name) ELSE <<>>
                  email == resolve_imceaex(m.email)
              IN <<StripChars(CollapseWhitespace(name), {",", " "}), Lower(email)>>
         ELSE IF bare # None
              THEN <<<<>>, Lower(resolve_imceaex(bare))>>
              ELSE <<<<>>, <<>>>>

\* ParseMatches that falls back to the text itself as the email
ParseMatches_RawFallback(token, m, bare) ==
    IF token = <<>> THEN <<<<>>, <<>>>>
    ELSE IF m.found
         THEN LET name == IF m.name # <<>> THEN StripQuotes(m.name) ELSE <<>>
                  email == resolve_imceaex(Strip(m.email))
              IN <<StripChars(CollapseWhitespace(name), {",", " "}), Lower(email)>>
         ELSE IF bare # None
              THEN <<<<>>, Lower(resolve_imceaex(bare))>>
              ELSE <<<<>>, Lower(token)>>

\* parse_email_address(raw): <<display_name, email>>
\* parse_email_address on the stripped text, m = _ADDR_RE.search(raw) and
\* bare = _BARE_EMAIL_RE.search(raw)
ParseMatches(token, m, bare) ==
    IF token = <<>> THEN <<<<>>, <<>>>>
    ELSE IF m.found
         THEN LET name == IF m.name # <<>> THEN StripQuotes(m.name) ELSE <<>>
                  email == resolve_imceaex(Strip(m.email))
              IN <<StripChars(CollapseWhitespace(name), {",", " "}), Lower(email)>>
         ELSE IF bare # None
              THEN <<<<>>, Lower(resolve_imceaex(bare))>>
              ELSE <<<<>>, <<>>>>

ParseToken(token) == ParseMatches(token, AddrSearch(token), BareSearch(token))

parse_email_address(raw) == ParseToken(StripQuotes(raw))

EndsWith(s, c) == s # <<>> /\ s[Len(s)] = c

\* to_blob.strip().rstrip(",").strip()
StripTrailingCommas(s) == Strip(RStripChars(Strip(s), {","}))

\* the loop of split_recipients that appends no '>' to any part
RECURSIVE BracketTokens_NeverAppend(_, _)
BracketTokens_NeverAppend(parts, i) ==
    IF i > Len(parts) THEN <<>>
    ELSE LET part == StripTrailingCommas(parts[i])
         IN IF part = <<>>
            THEN BracketTokens_NeverAppend(parts, i + 1)
            ELSE <<part>> \o BracketTokens_NeverAppend(parts, i + 1)

\* the loop of split_recipients over parts[i..]
RECURSIVE BracketTokens(_, _)
BracketTokens(parts, i) ==
    IF i > Len(parts) THEN <<>>
    ELSE LET part == StripTrailingCommas(parts[i])
         IN IF part = <<>>
            THEN BracketTokens(parts, i + 1)
            ELSE <<IF i < Len(parts) /\ ~EndsWith(part, ">")
                   THEN Append(part, ">")
                   ELSE part>> \o BracketTokens(parts, i + 1)

\* [t.strip() for t in parts if t.strip()]
RECURSIVE BareTokens(_)
BareTokens(parts) ==
    IF parts = <<>> THEN <<>>
    ELSE (IF Strip(parts[1]) # <<>> THEN <<Strip(parts[1])>> ELSE <<>>)
         \o BareTokens(Tail(parts))

\* split_recipients that takes the comma branch whatever the blob holds
split_recipients_OnCommas(to_blob) ==
    LET blob == StripTrailingCommas(to_blob)
    IN IF to_blob = None \/ Strip(to_blob) = <<>> \/ blob = <<>>
       THEN <<>>
       ELSE BareTokens(Split(blob, <<",">>))

\* split_recipients(to_blob)
split_recipients(to_blob) ==
    LET blob == StripTrailingCommas(to_blob)
    IN IF to_blob = None \/ Strip(to_blob) = <<>> \/ blob = <<>>
       THEN <<>>
       ELSE IF \E i \in DOMAIN blob : blob[i] = ">"
            THEN BracketTokens(Split(blob, <<">", ",", " ">>), 1)
            ELSE BareTokens(Split(blob, <<",">>))

\* if email: result.append((name, email))
KeepParsed(pair) == IF pair[2] # <<>> THEN <<pair>> ELSE <<>>

\* the loop of parse_recipients over the tokens
RECURSIVE ParsedTokens(_)
ParsedTokens(tokens) ==
    IF tokens = <<>> THEN <<>>
    ELSE KeepParsed(parse_email_address(tokens[1])) \o ParsedTokens(Tail(tokens))

\* parse_recipients(to_blob): the <<display_name, email>> of each token that parsed
parse_recipients(to_blob) == ParsedTokens(split_recipients(to_blob))

(***************************************************************************)
(* src/src/config.py                                                       *)
(***************************************************************************)
\* DatasetConfig.after_hours_start, after_hours_end, weekend_days
after_hours_start == 18

after_hours_end == 7

weekend_days == {5, 6}

(***************************************************************************)
(* datetime                                                                *)
(***************************************************************************)
IsLeap(y) == (y % 4 = 0 /\ y % 100 # 0) \/ y % 400 = 0

DaysInMonth(y, m) ==
    CASE m \in {1, 3, 5, 7, 8, 10, 12} -> 31
      [] m \in {4, 6, 9, 11} -> 30
      [] OTHER -> IF IsLeap(y) THEN 29 ELSE 28

\* datetime.weekday(): 0 = Monday
Weekday(y, m, d) ==
    LET t == <<0, 3, 2, 5, 0, 3, 5, 1, 4, 6, 2, 4>>
        yy == IF m < 3 THEN y - 1 ELSE y
        sundayFirst == (yy + yy \div 4 - yy \div 100 + yy \div 400 + t[m] + d) % 7
    IN (sundayFirst + 6) % 7

RECURSIVE DayOfYear(_, _, _)
DayOfYear(y, m, d) == IF m = 1 THEN d ELSE DaysInMonth(y, m - 1) + DayOfYear(y, m - 1, d)

\* the number of ISO weeks of year y
IsoWeeksInYear(y) ==
    LET P(x) == (x + x \div 4 - x \div 100 + x \div 400) % 7
    IN IF P(y) = 4 \/ P(y - 1) = 3 THEN 53 ELSE 52

\* date.isocalendar(): <<ISO year, ISO week>>
IsoWeek(y, m, d) ==
    LET w == (DayOfYear(y, m, d) - (Weekday(y, m, d) + 1) + 10) \div 7
    IN IF w < 1 THEN <<y - 1, IsoWeeksInYear(y - 1)>>
       ELSE IF w > IsoWeeksInYear(y) THEN <<y + 1, 1>>
       ELSE <<y, w>>

\* n in decimal, zero-padded to width characters
RECURSIVE NatToDigits(_, _)
NatToDigits(n, width) ==
    IF width = 0 THEN <<>>
    ELSE Append(NatToDigits(n \div 10, width - 1),
                CHOOSE c \in Digits : DigitValue(c) = n % 10)

\* strftime("%G-W%V")
FormatWeekId(ts) ==
    LET iso == IsoWeek(ts.year, ts.month, ts.day)
    IN NatToDigits(iso[1], 4) \o <<"-", "W">> \o NatToDigits(iso[2], 2)

(***************************************************************************)
(* src/src/ingest/pipeline.py                                              *)
(***************************************************************************)
\* _parse_timestamp(date_str, "%m/%d/%Y %H:%M"): strptime matches
\*   (1[0-2]|0[1-9]|[1-9])/(3[01]|[12]\d|0[1-9]|[1-9]| [1-9])/(\d\d\d\d)\s+
\*   (2[0-3]|[0-1]\d|\d):([0-5]\d|\d)
\* against the stripped text, rejects unconverted trailing text and builds
\* the datetime; every ValueError gives None, here [ok |-> FALSE]
parse_timestamp(date_str) ==
    LET t == Strip(date_str)
        slash1 == Find(t, <<"/">>, 1)
        slash2 == IF slash1 = 0 THEN 0 ELSE Find(t, <<"/">>, slash1 + 1)
        month == Slice(t, 1, slash1 - 1)
        day == Slice(t, slash1 + 1, slash2 - 1)
        year == Slice(t, slash2 + 1, slash2 + 4)
        ws == slash2 + 5
        hourAt == ws + FirstNotIn(Slice(t, ws, Len(t)), Whitespace) - 1
        colon == Find(t, <<":">>, hourAt)
        hour == Slice(t, hourAt, colon - 1)
        minute == Slice(t, colon + 1, Len(t))
        dayDigits == IF day # <<>> /\ day[1] = " " THEN Tail(day) ELSE day
        TwoDigits(x) == Len(x) = 2 /\ AllIn(x, Digits)
        OneDigit(x) == Len(x) = 1 /\ AllIn(x, Digits)
        shape ==
            /\ slash1 > 0 /\ slash2 > 0 /\ colon > 0
            /\ \/ OneDigit(month) /\ month[1] # "0"
               \/ TwoDigits(month) /\ DigitsToNat(month) \in 1..12
            /\ \/ OneDigit(day) /\ day[1] # "0"
               \/ TwoDigits(day) /\ DigitsToNat(day) \in 1..31
               \/ Len(day) = 2 /\ day[1] = " " /\ day[2] \in Digits \ {"0"}
            /\ Len(year) = 4 /\ AllIn(year, Digits)
            /\ hourAt > ws
            /\ \/ OneDigit(hour)
               \/ TwoDigits(hour) /\ DigitsToNat(hour) \in 0..23
            /\ \/ OneDigit(minute)
               \/ TwoDigits(minute) /\ DigitsToNat(minute) \in 0..59
    IN IF shape
          /\ DigitsToNat(year) >= 1
          /\ DigitsToNat(dayDigits) <= DaysInMonth(DigitsToNat(year), DigitsToNat(month))
       THEN [ok |-> TRUE, year |-> DigitsToNat(year), month |-> DigitsToNat(month),
             day |-> DigitsToNat(dayDigits), hour |-> DigitsToNat(hour),
             minute |-> DigitsToNat(minute)]
       ELSE [ok |-> FALSE]

\* the loop over recipients of _ingest_single_csv, with its two lists
RECURSIVE RecipientLoop(_, _, _)
RecipientLoop(recipients, to_emails, to_names) ==
    IF recipients = <<>>
    THEN [to_emails |-> to_emails, to_names |-> to_names]
    ELSE IF normalize_email(recipients[1][2]) # <<>>
         THEN RecipientLoop(Tail(recipients),
                            Append(to_emails, normalize_email(recipients[1][2])),
                            Append(to_names, normalize_name(recipients[1][1])))
         ELSE RecipientLoop(Tail(recipients), to_emails, to_names)

\* The body of the for loop of _ingest_single_csv for one row of parse_csv:
\* the row is dropped (parse_errors += 1; continue), a record is appended
\* (and msg_id += 1), or an exception leaves the loop.
\* IngestParsed without "if not from_email: parse_errors += 1; continue"
IngestParsed_NoSenderCheck(ts, size, from, recipients, lists, msg_id) ==
    IF ~ts.ok THEN [kind |-> "drop"]
    ELSE IF size.tag = "raise" THEN [kind |-> "raise", exc |-> size.exc]
    ELSE IF recipients = <<>> THEN [kind |-> "drop"]
    ELSE IF lists.to_emails = <<>> THEN [kind |-> "drop"]
    ELSE [kind |-> "record",
          record |-> [msg_id |-> msg_id,
                      timestamp |-> [year |-> ts.year, month |-> ts.month,
                                     day |-> ts.day, hour |-> ts.hour,
                                     minute |-> ts.minute],
                      size_bytes |-> IF size.tag = "None" THEN 0 ELSE size.value,
                      from_email |-> normalize_email(from[2]),
                      from_name |-> normalize_name(from[1]),
                      to_emails |-> lists.to_emails,
                      to_names |-> lists.to_names,
                      n_recipients |-> Len(lists.to_emails)]]

\* with ts = _parse_timestamp(date_str), size = parse_size(size_str),
\* from = parse_email_address(from_raw), recipients = parse_recipients(to_raw)
\* and lists = the two lists the loop over recipients builds
IngestParsed(ts, size, from, recipients, lists, msg_id) ==
    IF ~ts.ok THEN [kind |-> "drop"]
    ELSE IF size.tag = "raise" THEN [kind |-> "raise", exc |-> size.exc]
    ELSE IF from[2] = <<>> THEN [kind |-> "drop"]
    ELSE IF recipients = <<>> THEN [kind |-> "drop"]
    ELSE IF lists.to_emails = <<>> THEN [kind |-> "drop"]
    ELSE [kind |-> "record",
          record |-> [msg_id |-> msg_id,
                      timestamp |-> [year |-> ts.year, month |-> ts.month,
                                     day |-> ts.day, hour |-> ts.hour,
                                     minute |-> ts.minute],
                      size_bytes |-> IF size.tag = "None" THEN 0 ELSE size.value,
                      from_email |-> normalize_email(from[2]),
                      from_name |-> normalize_name(from[1]),
                      to_emails |-> lists.to_emails,
                      to_names |-> lists.to_names,
                      n_recipients |-> Len(lists.to_emails)]]

IngestRecipients(ts, size, from, recipients, msg_id) ==
    IngestParsed(ts, size, from, recipients, RecipientLoop(recipients, <<>>, <<>>),
                 msg_id)

ingest_row(row, msg_id) ==
    IngestRecipients(parse_timestamp(row.date), parse_size(row.size),
                     parse_email_address(row.from_raw), parse_recipients(row.to_raw),
                     msg_id)

\* A polars DataFrame: its column names in order and its rows.
\* pl.DataFrame() has no columns and no rows.
EmptyDataFrame == [columns |-> <<>>, rows |-> <<>>]

RecordColumns == <<"msg_id", "timestamp", "size_bytes", "from_email", "from_name",
                   "to_emails", "to_names", "n_recipients">>

DerivedColumns == <<"week_id", "hour", "day_of_week", "is_after_hours", "is_weekend">>

\* the DatasetConfig of the run: the defaults of its fields
DefaultDataset ==
    [after_hours_start |-> after_hours_start, after_hours_end |-> after_hours_end,
     weekend_days |-> weekend_days]

\* the two with_columns calls on one row that keep a record after hours
\* only when both comparisons hold
DatasetColumns_BothComparisons(r, dataset) ==
    LET hour == r.timestamp.hour
        day_of_week == Weekday(r.timestamp.year, r.timestamp.month, r.timestamp.day)
    IN [msg_id |-> r.msg_id, timestamp |-> r.timestamp, size_bytes |-> r.size_bytes,
        from_email |-> r.from_email, from_name |-> r.from_name,
        to_emails |-> r.to_emails, to_names |-> r.to_names,
        n_recipients |-> r.n_recipients,
        week_id |-> FormatWeekId(r.timestamp),
        hour |-> hour,
        day_of_week |-> day_of_week,
        is_after_hours |-> (hour >= dataset.after_hours_start)
                           /\ (hour < dataset.after_hours_end),
        is_weekend |-> day_of_week \in dataset.weekend_days]

\* the two with_columns calls on one row, for the given DatasetConfig
DatasetColumns(r, dataset) ==
    LET hour == r.timestamp.hour
        day_of_week == Weekday(r.timestamp.year, r.timestamp.month, r.timestamp.day)
    IN [msg_id |-> r.msg_id, timestamp |-> r.timestamp, size_bytes |-> r.size_bytes,
        from_email |-> r.from_email, from_name |-> r.from_name,
        to_emails |-> r.to_emails, to_names |-> r.to_names,
        n_recipients |-> r.n_recipients,
        week_id |-> FormatWeekId(r.timestamp),
        hour |-> hour,
        day_of_week |-> day_of_week,
        is_after_hours |-> (hour >= dataset.after_hours_start)
                           \/ (hour < dataset.after_hours_end),
        is_weekend |-> day_of_week \in dataset.weekend_days]

\* the two with_columns calls on one row
with_columns(r) == DatasetColumns(r, DefaultDataset)

\* what _ingest_single_csv builds after its loop for the given DatasetConfig:
\* pl.DataFrame() when no record was kept, else pl.DataFrame(records) with
\* the derived columns
DatasetChunk(records, dataset) ==
    IF records = <<>>
    THEN EmptyDataFrame
    ELSE [columns |-> RecordColumns \o DerivedColumns,
          rows |-> [i \in DOMAIN records |-> DatasetColumns(records[i], dataset)]]

chunk_df(records) == DatasetChunk(records, DefaultDataset)

\* ConcatRows with each frame put before the ones ingested earlier
RECURSIVE ConcatRows_Prepend(_)
ConcatRows_Prepend(dfs) ==
    IF dfs = <<>> THEN <<>> ELSE ConcatRows_Prepend(Tail(dfs)) \o dfs[1].rows

\* the rows of pl.concat(dfs), in the order of dfs
RECURSIVE ConcatRows(_)
ConcatRows(dfs) == IF dfs = <<>> THEN <<>> ELSE dfs[1].rows \o ConcatRows(Tail(dfs))

\* pl.concat(dfs) for frames of one schema (dfs non-empty)
concat(dfs) == [columns |-> dfs[1].columns, rows |-> ConcatRows(dfs)]

(***************************************************************************)
(* src/src/cache_manager.py                                                *)
(***************************************************************************)
\* is_cache_fresh(cache_path, *source_paths): cache_file and each source are
\* [exists, mtime]
is_cache_fresh(cache_file, sources) ==
    /\ cache_file.exists
    /\ \A i \in DOMAIN sources :
           ~(sources[i].exists /\ sources[i].mtime > cache_file.mtime)

(***************************************************************************)
(* The inputs of the model: two CSV files in the data directory, each      *)
(* written from a few physical lines.                                      *)
(***************************************************************************)
\* the header line:
\*   Date,Size,From,To
Line_hdr == <<"D", "a", "t", "e", ",", "S", "i", "z", "e", ",", "F", "r", "o", "m",
    ",", "T", "o">>

\* a row that parses; its recipient blob can go on in the next line:
\*   1/4/2010 18:30,1.5K,"Doe, J" <J@x.org>,Al <al@y.org>,
Line_ok == <<"1", "/", "4", "/", "2", "0", "1", "0", " ", "1", "8", ":", "3", "0",
    ",", "1", ".", "5", "K", ",", "\"", "D", "o", "e", ",", " ", "J", "\"",
    " ", "<", "J", "@", "x", ".", "o", "r", "g", ">", ",", "A", "l", " ",
    "<", "a", "l", "@", "y", ".", "o", "r", "g", ">", ",">>

\* a line that does not start with a date: a continuation:
\*   "Roe, K" <K@x.org>,,
Line_cont == <<"\"", "R", "o", "e", ",", " ", "K", "\"", " ", "<", "K", "@", "x", ".",
    "o", "r", "g", ">", ",", ",">>

\* starts like a date, but 30 February is none:
\*   2/30/2010 3:04,1K,<a@b.c>,<d@e.f>
Line_badts == <<"2", "/", "3", "0", "/", "2", "0", "1", "0", " ", "3", ":", "0", "4",
    ",", "1", "K", ",", "<", "a", "@", "b", ".", "c", ">", ",", "<", "d",
    "@", "e", ".", "f", ">">>

\* a size that does not match _SIZE_RE, bare addresses:
\*   1/2/2010 9:05,n/a,a@b.co,d@e.fr
Line_nosize == <<"1", "/", "2", "/", "2", "0", "1", "0", " ", "9", ":", "0", "5", ",",
    "n", "/", "a", ",", "a", "@", "b", ".", "c", "o", ",", "d", "@", "e",
    ".", "f", "r">>

\* a size that matches _SIZE_RE and is no number:
\*   1/2/2010 9:05,1.2.3,a@b.co,d@e.fr
Line_badsize == <<"1", "/", "2", "/", "2", "0", "1", "0", " ", "9", ":", "0", "5", ",",
    "1", ".", "2", ".", "3", ",", "a", "@", "b", ".", "c", "o", ",", "d",
    "@", "e", ".", "f", "r">>

\* no sender address:
\*   1/3/2010 7:00,2K,nobody,<d@e.f>
Line_nofrom == <<"1", "/", "3", "/", "2", "0", "1", "0", " ", "7", ":", "0", "0", ",",
    "2", "K", ",", "n", "o", "b", "o", "d", "y", ",", "<", "d", "@", "e",
    ".", "f", ">">>

\* no recipient address:
\*   1/3/2010 7:00,2K,<a@b.c>,undisclosed
Line_noto == <<"1", "/", "3", "/", "2", "0", "1", "0", " ", "7", ":", "0", "0", ",",
    "2", "K", ",", "<", "a", "@", "b", ".", "c", ">", ",", "u", "n", "d",
    "i", "s", "c", "l", "o", "s", "e", "d">>

\* a physical line by its name; the files of the model hold the names
PhysicalLine == [hdr |-> Line_hdr, ok |-> Line_ok, cont |-> Line_cont,
                 badts |-> Line_badts, nosize |-> Line_nosize,
                 badsize |-> Line_badsize, nofrom |-> Line_nofrom, noto |-> Line_noto]

DataLines == {"ok", "cont", "badts", "nosize", "badsize", "nofrom", "noto"}

\* the text of a file whose physical lines are named by lines
FileText(lines) == [i \in DOMAIN lines |-> PhysicalLine[lines[i]]]

Files == {"a.csv", "b.csv"}

\* the order of the paths under sorted()
PathOrder == <<"a.csv", "b.csv">>

\* at most this many physical lines after the headers, over the files of a directory
MaxLines == 3

\* the clock (modification times) runs from 1 to MaxClock
MaxClock == 2

\* calls of run_ingestion in one behaviour
MaxCalls == 3

\* changes of the input files in one behaviour
MaxEdits == 2

SeqsUpTo(S, n) == UNION {[1..k -> S] : k \in 0..n}

\* the contents a file can have with at most n lines after the header: the
\* empty file, or the header and up to n lines
FileContents(n) == {<<>>} \cup {<<"hdr">> \o body : body \in SeqsUpTo(DataLines, n)}

BodyLen(lines) == IF lines = <<>> THEN 0 ELSE Len(lines) - 1

(***************************************************************************)
(* State                                                                   *)
(***************************************************************************)
VARIABLES
    \* the file system and the clock
    fsys,           \* per file of data_dir: status ("ok", "denied": it exists and
                    \* open() fails, "absent"), mtime, lines (names of physical lines)
    dirMtime,       \* st_mtime of data_dir
    cache,          \* message_fact.parquet: exists, mtime, table
    now,            \* the clock that stamps modification times
    handles,        \* the source files that stand opened by iter_raw_lines
    \* the frame of run_ingestion
    pc,             \* "idle", "files" (head of the loop over csv_paths), "rows"
                    \* (inside _ingest_single_csv), "done" (returned), "raised"
    csv_paths,      \* dataset.csv_paths
    idx,            \* position of csv_path in csv_paths
    dfs,
    total_errors,
    next_id,
    \* the frame of _ingest_single_csv
    records,
    msg_id,
    parse_errors,
    gen,            \* the generator parse_csv(csv_path)
    \* what the caller gets
    result,         \* the value returned or the exception raised
    via,            \* the return statement taken: "nofiles", "cache", "ingest"
    stdout,         \* the summary lines printed by the call
    \* history
    calls,          \* calls of run_ingestion so far
    edits,          \* changes of the input files so far
    prior,          \* the result of the call before, while the inputs are unchanged
    rowNo,          \* rows yielded by parse_csv for the file being read
    origin,         \* per record appended in this call: its msg_id, the position
                    \* idx of its file in csv_paths and the number row of its row
    \* frames beside that of run_ingestion
    workers,        \* per file of csv_paths, a frame of _ingest_single_csv called
                    \* on that file alone with a start id computed beforehand
    unit            \* one function of the ingest package called on its own:
                    \* its name, its argument and what it returned

vars == <<fsys, dirMtime, cache, now, handles, pc, csv_paths, idx, dfs, total_errors,
          next_id, records, msg_id, parse_errors, gen, result, via, stdout, calls,
          edits, prior, rowNo, origin, workers, unit>>

envVars == <<fsys, dirMtime, now>>

loopVars == <<csv_paths, idx, dfs, total_errors, next_id>>

fileVars == <<records, msg_id, parse_errors, gen, rowNo, origin>>

sideVars == <<workers, unit>>

NoResult == [kind |-> "none"]

Returned(table) == [kind |-> "table", table |-> table]

Raised(exc) == [kind |-> "raise", exc |-> exc]

NoPrior == [valid |-> FALSE]

\* no function is being called on its own
NoCall == [fn |-> "none", done |-> FALSE]

\* no message_fact.parquet in cache_dir
NoCache == [exists |-> FALSE, mtime |-> 0, table |-> EmptyDataFrame]

(***************************************************************************)
(* src/src/config.py: AppConfig.discover_csv_files                         *)
(***************************************************************************)
\* data_dir.glob("*.csv"): the files that exist, in an order the file system picks
Glob ==
    LET present == {f \in Files : fsys[f].status # "absent"}
    IN {g \in [1..Cardinality(present) -> present] : Range(g) = present}

\* sorted(paths)
Sorted(paths) ==
    LET Listed(f) == f \in Range(paths)
    IN SelectSeq(PathOrder, Listed)

\* discover_csv_files(): the lists it can return (one)
discover_csv_files == {Sorted(g) : g \in Glob}

\* os.stat of a source file and of data_dir, as is_cache_fresh reads them
SourceStats(paths) ==
    [i \in DOMAIN paths |-> [exists |-> fsys[paths[i]].status # "absent",
                             mtime |-> fsys[paths[i]].mtime]]
    \o <<[exists |-> TRUE, mtime |-> dirMtime]>>

\* write_parquet(df, cache_path) at the present time
write_parquet(df) == [exists |-> TRUE, mtime |-> now, table |-> df]

\* pl.read_parquet(cache_path)
read_parquet(cache_file) == cache_file.table

(***************************************************************************)
(* run_ingestion, step by step                                             *)
(***************************************************************************)
\* run_ingestion(config) up to its first return or to the head of its loop
CallRunIngestion ==
    /\ pc = "idle"
    /\ calls < MaxCalls
    /\ calls' = calls + 1
    /\ stdout' = <<>>
    /\ origin' = <<>>
    /\ \E paths \in discover_csv_files :
         /\ csv_paths' = paths
         /\ IF paths = <<>>
            THEN /\ result' = Returned(EmptyDataFrame)
                 /\ via' = "nofiles"
                 /\ pc' = "done"
                 /\ UNCHANGED <<idx, dfs, total_errors, next_id>>
            ELSE IF is_cache_fresh(cache, SourceStats(paths))
                 THEN /\ result' = Returned(read_parquet(cache))
                      /\ via' = "cache"
                      /\ pc' = "done"
                      /\ UNCHANGED <<idx, dfs, total_errors, next_id>>
                 ELSE /\ dfs' = <<>>
                      /\ total_errors' = 0
                      /\ next_id' = 0
                      /\ idx' = 1
                      /\ via' = "ingest"
                      /\ pc' = "files"
                      /\ UNCHANGED result
    /\ UNCHANGED <<sideVars, envVars, cache, handles, records, msg_id, parse_errors, gen, rowNo,
                   edits, prior>>

\* EnterIngestSingleCsv with msg_id = 0 in place of msg_id = start_msg_id
EnterIngestSingleCsv_FromZero ==
    /\ pc = "files"
    /\ idx <= Len(csv_paths)
    /\ records' = <<>>
    /\ msg_id' = 0
    /\ parse_errors' = 0
    /\ gen' = NewGenerator
    /\ rowNo' = 0
    /\ pc' = "rows"
    /\ UNCHANGED <<sideVars, envVars, cache, handles, loopVars, result, via, stdout, calls,
                   edits, prior, origin>>

\* the loop of run_ingestion takes the next path and calls _ingest_single_csv,
\* which runs up to the head of its for loop
EnterIngestSingleCsv ==
    /\ pc = "files"
    /\ idx <= Len(csv_paths)
    /\ records' = <<>>
    /\ msg_id' = next_id
    /\ parse_errors' = 0
    /\ gen' = NewGenerator
    /\ rowNo' = 0
    /\ pc' = "rows"
    /\ UNCHANGED <<sideVars, envVars, cache, handles, loopVars, result, via, stdout, calls, edits,
                   prior, origin>>

\* OpenFails with the OSError caught and the file passed over as if empty
OpenFails_Skipped ==
    /\ pc = "rows"
    /\ gen.at = "start"
    /\ fsys[csv_paths[idx]].status # "ok"
    /\ gen' = [gen EXCEPT !.at = "closed"]
    /\ UNCHANGED <<sideVars, envVars, cache, handles, pc, loopVars, records, msg_id, parse_errors,
                   rowNo, origin, result, via, stdout, calls, edits, prior>>

\* The first next() on the generator, for a file that cannot be opened:
\* open(csv_path) raises, and the OSError leaves the generator,
\* _ingest_single_csv and run_ingestion.
OpenFails ==
    /\ pc = "rows"
    /\ gen.at = "start"
    /\ fsys[csv_paths[idx]].status # "ok"
    /\ pc' = "raised"
    /\ result' = Raised("OSError")
    /\ UNCHANGED <<sideVars, envVars, cache, handles, loopVars, fileVars, via, stdout, calls,
                   edits, prior>>

\* WithOpen when nothing finalizes the generator that an exception leaves
\* suspended: the file stays opened
WithOpen_NotFinalized(open, f, genAt, raised) ==
    IF genAt = "closed" THEN open \ {f} ELSE open \cup {f}

\* The source files standing opened after a turn of the for loop on file f.
\* The with block of iter_raw_lines closes f when the generator returns; and
\* when an exception leaves the for loop, the unwinding frame drops the
\* generator, which is finalized at once (GeneratorExit at its yield), so
\* that the with block closes f as well.
WithOpen(open, f, genAt, raised) ==
    IF genAt = "closed" \/ raised THEN open \ {f} ELSE open \cup {f}

\* One turn of the for loop of _ingest_single_csv: next() on the generator
\* (which opens the file on its first turn and closes it when it returns),
\* then the loop body on the row it yields.
NextRow ==
    /\ pc = "rows"
    /\ gen.at # "closed"
    /\ gen.at = "start" => fsys[csv_paths[idx]].status = "ok"
    /\ LET f == csv_paths[idx]
       IN \E step \in {iter_raw_lines_next(FileText(fsys[f].lines), gen)} :
             /\ IF step.yielded = None
                THEN /\ gen' = step.gen
                     /\ handles' = WithOpen(handles, f, step.gen.at, FALSE)
                     /\ UNCHANGED <<pc, result, records, msg_id, parse_errors,
                                    rowNo, origin>>
                ELSE \E out \in {ingest_row(parse_csv_row(step.yielded), msg_id)} :
                     /\ rowNo' = rowNo + 1
                     /\ gen' = IF out.kind = "raise"
                               THEN [step.gen EXCEPT !.at = "closed"]
                               ELSE step.gen
                     /\ handles' = WithOpen(handles, f, step.gen.at, out.kind = "raise")
                     /\ CASE out.kind = "drop" ->
                               /\ parse_errors' = parse_errors + 1
                               /\ UNCHANGED <<pc, result, records, msg_id, origin>>
                          [] out.kind = "record" ->
                               /\ records' = Append(records, out.record)
                               /\ msg_id' = msg_id + 1
                               /\ origin' = Append(origin, [msg_id |-> msg_id,
                                                            idx |-> idx,
                                                            row |-> rowNo + 1])
                               /\ UNCHANGED <<pc, result, parse_errors>>
                          [] out.kind = "raise" ->
                               \* the exception leaves _ingest_single_csv and
                               \* run_ingestion
                               /\ pc' = "raised"
                               /\ result' = Raised(out.exc)
                               /\ UNCHANGED <<records, msg_id, parse_errors, origin>>
    /\ UNCHANGED <<sideVars, envVars, cache, loopVars, via, stdout, calls, edits, prior>>

\* LeaveIngestSingleCsv with next_id left as it was: the next file starts
\* again from the same msg_id
LeaveIngestSingleCsv_SameStart ==
    /\ pc = "rows"
    /\ gen.at = "closed"
    /\ LET chunk == chunk_df(records)
       IN /\ dfs' = IF Len(chunk.rows) > 0 THEN Append(dfs, chunk) ELSE dfs
          /\ stdout' = Append(stdout, [file |-> csv_paths[idx],
                                       messages |-> Len(chunk.rows),
                                       errors |-> parse_errors])
    /\ total_errors' = total_errors + parse_errors
    /\ idx' = idx + 1
    /\ pc' = "files"
    /\ UNCHANGED <<sideVars, envVars, cache, handles, csv_paths, next_id, fileVars, result, via,
                   calls, edits, prior>>

\* _ingest_single_csv after its loop, and the rest of the loop body of
\* run_ingestion for this file
LeaveIngestSingleCsv ==
    /\ pc = "rows"
    /\ gen.at = "closed"
    /\ LET chunk == chunk_df(records)
       IN /\ dfs' = IF Len(chunk.rows) > 0 THEN Append(dfs, chunk) ELSE dfs
          /\ stdout' = Append(stdout, [file |-> csv_paths[idx],
                                       messages |-> Len(chunk.rows),
                                       errors |-> parse_errors])
    /\ next_id' = msg_id
    /\ total_errors' = total_errors + parse_errors
    /\ idx' = idx + 1
    /\ pc' = "files"
    /\ UNCHANGED <<sideVars, envVars, cache, handles, csv_paths, fileVars, result, via, calls,
                   edits, prior>>

\* run_ingestion after its loop
FinishIngestion ==
    /\ pc = "files"
    /\ idx > Len(csv_paths)
    /\ stdout' = Append(stdout, [file |-> "total", messages |-> next_id,
                                 errors |-> total_errors])
    /\ IF dfs = <<>>
       THEN /\ result' = Returned(EmptyDataFrame)
            /\ UNCHANGED cache
       ELSE /\ cache' = write_parquet(concat(dfs))
            /\ result' = Returned(concat(dfs))
    /\ pc' = "done"
    /\ UNCHANGED <<sideVars, envVars, handles, loopVars, fileVars, via, calls, edits, prior>>

\* the caller has the result; the frames are gone
Return ==
    /\ pc \in {"done", "raised"}
    /\ pc' = "idle"
    /\ prior' = [valid |-> TRUE, result |-> result]
    /\ result' = NoResult
    /\ via' = "none"
    /\ csv_paths' = <<>>
    /\ idx' = 0
    /\ dfs' = <<>>
    /\ total_errors' = 0
    /\ next_id' = 0
    /\ records' = <<>>
    /\ msg_id' = 0
    /\ parse_errors' = 0
    /\ gen' = NewGenerator
    /\ rowNo' = 0
    /\ UNCHANGED <<sideVars, envVars, cache, handles, stdout, calls, edits, origin>>

(***************************************************************************)
(* The world around the program, between calls                             *)
(***************************************************************************)
Tick ==
    /\ pc = "idle"
    /\ now < MaxClock
    /\ now' = now + 1
    /\ UNCHANGED <<sideVars, fsys, dirMtime, cache, handles, pc, loopVars, fileVars, result, via,
                   stdout, calls, edits, prior>>

\* the contents written between calls: the empty file, the header alone, or
\* the header and one line (a valid row, a dropped row, a row whose size raises)
EditContents == {<<>>, <<"hdr">>, <<"hdr", "ok">>, <<"hdr", "badts">>, <<"hdr", "badsize">>}

\* a file is written: created in data_dir when absent, else overwritten
WriteFile ==
    /\ pc = "idle"
    /\ edits < MaxEdits
    /\ \E f \in Files, lines \in EditContents :
         /\ fsys' = [fsys EXCEPT ![f] = [status |-> IF @.status = "absent" THEN "ok"
                                                    ELSE @.status,
                                         mtime |-> now, lines |-> lines]]
         /\ dirMtime' = IF fsys[f].status = "absent" THEN now ELSE dirMtime
    /\ edits' = edits + 1
    /\ prior' = NoPrior
    /\ UNCHANGED <<sideVars, cache, now, handles, pc, loopVars, fileVars, result, via, stdout,
                   calls>>

RemoveFile ==
    /\ pc = "idle"
    /\ edits < MaxEdits
    /\ \E f \in Files :
         /\ fsys[f].status # "absent"
         /\ fsys' = [fsys EXCEPT ![f] = [status |-> "absent", mtime |-> 0,
                                         lines |-> <<>>]]
    /\ dirMtime' = now
    /\ edits' = edits + 1
    /\ prior' = NoPrior
    /\ UNCHANGED <<sideVars, cache, now, handles, pc, loopVars, fileVars, result, via, stdout,
                   calls>>

\* the permission to read a file is taken away or given back
Chmod ==
    /\ pc = "idle"
    /\ edits < MaxEdits
    /\ \E f \in Files :
         /\ fsys[f].status # "absent"
         /\ fsys' = [fsys EXCEPT ![f].status = IF @ = "ok" THEN "denied" ELSE "ok"]
    /\ edits' = edits + 1
    /\ prior' = NoPrior
    /\ UNCHANGED <<sideVars, dirMtime, cache, now, handles, pc, loopVars, fileVars, result, via,
                   stdout, calls>>

\* the cache directory is cleared
RemoveCache ==
    /\ pc = "idle"
    /\ edits < MaxEdits
    /\ cache.exists
    /\ cache' = NoCache
    /\ edits' = edits + 1
    /\ UNCHANGED <<sideVars, envVars, handles, pc, loopVars, fileVars, result, via, stdout, calls,
                   prior>>

(***************************************************************************)
(* Specifications                                                          *)
(***************************************************************************)
InitFrame ==
    /\ pc = "idle"
    /\ csv_paths = <<>>
    /\ idx = 0
    /\ dfs = <<>>
    /\ total_errors = 0
    /\ next_id = 0
    /\ records = <<>>
    /\ msg_id = 0
    /\ parse_errors = 0
    /\ gen = NewGenerator
    /\ result = NoResult
    /\ via = "none"
    /\ stdout = <<>>
    /\ calls = 0
    /\ edits = 0
    /\ prior = NoPrior
    /\ rowNo = 0
    /\ origin = <<>>
    /\ handles = {}
    /\ workers = <<>>

\* Spec: the program in its world.  Two files written at time 1, no cache yet.
Init ==
    /\ fsys = [f \in Files |-> [status |-> "ok", mtime |-> 1,
                                lines |-> IF f = "a.csv" THEN <<"hdr", "ok">>
                                          ELSE <<"hdr", "noto">>]]
    /\ dirMtime = 1
    /\ cache = NoCache
    /\ now = 1
    /\ InitFrame
    /\ unit = NoCall

Next ==
    \/ CallRunIngestion
    \/ EnterIngestSingleCsv
    \/ OpenFails
    \/ NextRow
    \/ LeaveIngestSingleCsv
    \/ FinishIngestion
    \/ Return
    \/ Tick
    \/ WriteFile
    \/ RemoveFile
    \/ Chmod
    \/ RemoveCache

Spec == Init /\ [][Next]_vars

\* SpecRun: one call of run_ingestion on every directory of two readable
\* files with at most MaxLines lines after the headers, from no cache.
InitRun ==
    /\ \E a \in FileContents(MaxLines) :
         \E b \in FileContents(MaxLines - BodyLen(a)) :
           fsys = [f \in Files |-> [status |-> "ok", mtime |-> 1,
                                    lines |-> IF f = "a.csv" THEN a ELSE b]]
    /\ dirMtime = 1
    /\ cache = NoCache
    /\ now = 1
    /\ InitFrame
    /\ unit = NoCall

NextRun ==
    \/ CallRunIngestion
    \/ EnterIngestSingleCsv
    \/ NextRow
    \/ LeaveIngestSingleCsv
    \/ FinishIngestion

SpecRun == InitRun /\ [][NextRun]_vars

(***************************************************************************)
(* Properties of one call (SpecRun)                                        *)
(***************************************************************************)
\* the table the call returned
ReturnedRows == result.table.rows

\* whether the logical line passes validation: its row becomes a record
Passes(line) == ingest_row(parse_csv_row(line), 0).kind = "record"

ValidIn(rows) == Cardinality({i \in DOMAIN rows : Passes(rows[i])})

\* the number of rows of the files in paths that pass validation
RECURSIVE ValidRowCount(_)
ValidRowCount(paths) ==
    IF paths = <<>> THEN 0
    ELSE ValidIn(iter_raw_lines(FileText(fsys[paths[1]].lines)))
         + ValidRowCount(Tail(paths))

\* C1: the msg_id values of the table run_ingestion produces are exactly
\* 0 .. K-1, K being the number of rows of the input files that pass
\* validation: no gap, no duplicate, no id taken by a dropped row.
C1_MsgIdsContiguous ==
    (pc = "done" /\ via = "ingest") =>
        /\ {ReturnedRows[i].msg_id : i \in DOMAIN ReturnedRows}
              = 0..(ValidRowCount(csv_paths) - 1)
        /\ Len(ReturnedRows) = ValidRowCount(csv_paths)

\* a table of rows of both files, returned by a call that also dropped a row
C1_Witness ==
    /\ pc = "done"
    /\ via = "ingest"
    /\ total_errors >= 1
    /\ \E a, b \in Range(origin) : a.idx = 1 /\ b.idx = 2

\* C2: a record of an earlier file, or of an earlier logical line of the
\* same file, has the smaller msg_id; and the rows of the returned table are
\* the records in the order they were appended, msg_id strictly increasing.
C2_IdsFollowFileThenLineOrder ==
    /\ \A a, b \in Range(origin) :
           (a.idx < b.idx \/ (a.idx = b.idx /\ a.row < b.row)) => a.msg_id < b.msg_id
    /\ (pc = "done" /\ via = "ingest") =>
           /\ Len(ReturnedRows) = Len(origin)
           /\ \A i \in DOMAIN ReturnedRows : ReturnedRows[i].msg_id = origin[i].msg_id
           /\ \A i \in 1..(Len(ReturnedRows) - 1) :
                  ReturnedRows[i].msg_id < ReturnedRows[i + 1].msg_id

\* a returned table with two records of the first file, a dropped row between
\* them or not, and a record of the second file
C2_Witness ==
    /\ pc = "done"
    /\ via = "ingest"
    /\ \E a, b, c \in Range(origin) : a.idx = 1 /\ b.idx = 1 /\ a.row < b.row /\ c.idx = 2

\* C3: no exception raised while one row is handled (timestamp, size, sender
\* or recipient step) leaves the row loop: with readable files run_ingestion
\* raises nothing.
C3_NoRowExceptionEscapes == pc # "raised"

\* the four invariants of a record
RecordInvariants(r) ==
    /\ r.from_email # <<>>
    /\ r.to_emails # <<>>
    /\ Len(r.to_names) = Len(r.to_emails)
    /\ r.n_recipients = Len(r.to_emails)

\* C4: every record the pipeline emits (appended to records, held in a
\* frame of dfs, returned, written to the cache) has a non-empty from_email,
\* a non-empty to_emails, a to_names of the same length and n_recipients
\* equal to that length.
C4_RecordInvariants ==
    /\ \A i \in DOMAIN records : RecordInvariants(records[i])
    /\ \A k \in DOMAIN dfs : \A i \in DOMAIN dfs[k].rows : RecordInvariants(dfs[k].rows[i])
    /\ pc = "done" => \A i \in DOMAIN ReturnedRows : RecordInvariants(ReturnedRows[i])
    /\ \A i \in DOMAIN cache.table.rows : RecordInvariants(cache.table.rows[i])

\* a returned record with two recipients, while a row was dropped
C4_Witness ==
    /\ pc = "done"
    /\ total_errors >= 1
    /\ \E i \in DOMAIN ReturnedRows : ReturnedRows[i].n_recipients = 2

\* C5: every logical line yielded for a file either appends one record and
\* advances msg_id by 1, or advances parse_errors by 1: the rows yielded so
\* far are the records plus the parse errors, and msg_id has advanced by the
\* number of records, also when the loop is left.
C5_EveryRowCounted ==
    pc \in {"rows", "raised"} =>
        /\ rowNo = Len(records) + parse_errors
        /\ msg_id = next_id + Len(records)

\* C9: when no row of any input file passes validation, the table
\* run_ingestion returns has no rows and the columns of a MessageRecord
\* followed by the derived columns.
C9_EmptyTableWellFormed ==
    (pc = "done" /\ via = "ingest" /\ ValidRowCount(csv_paths) = 0) =>
        /\ ReturnedRows = <<>>
        /\ result.table.columns = RecordColumns \o DerivedColumns

(***************************************************************************)
(* Properties of calls between changes of the inputs (Spec)                *)
(***************************************************************************)
\* C6: run_ingestion returns the cached table only if the cache file exists
\* and its modification time is strictly later than that of every source
\* file and of the data directory.
C6_CacheServedOnlyIfStrictlyNewer ==
    (pc = "done" /\ via = "cache") =>
        /\ cache.exists
        /\ \A f \in Range(csv_paths) : fsys[f].mtime < cache.mtime
        /\ dirMtime < cache.mtime

\* C7: when a call has found the cache not fresh and ingested the files
\* again, the cache file holds exactly the table the call returns, also when
\* that table has no records.
C7_CacheHoldsReturnedTable ==
    (pc = "done" /\ via = "ingest") =>
        /\ cache.exists
        /\ cache.table = result.table

\* C8: a call returns the table the call before it returned, when the input
\* files have not changed in between, whether it ingests them again or reads
\* the cache.
C8_SameInputsSameTable ==
    (pc = "done" /\ prior.valid /\ prior.result.kind = "table") =>
        result.table = prior.result.table

\* the cache file is strictly newer than every source file and the directory
CacheStrictlyNewer ==
    /\ cache.exists
    /\ \A f \in Range(csv_paths) : fsys[f].mtime < cache.mtime
    /\ dirMtime < cache.mtime

RECURSIVE ErrorsPrinted(_)
ErrorsPrinted(out) ==
    IF out = <<>> THEN 0 ELSE out[1].errors + ErrorsPrinted(Tail(out))

SizeUndecodable(line) == parse_size(parse_csv_row(line).size).tag # "int"

\* the timestamp, the sender and the recipients of the logical line are valid
OtherwiseValid(line) ==
    LET row == parse_csv_row(line)
    IN /\ parse_timestamp(row.date).ok
       /\ parse_email_address(row.from_raw)[2] # <<>>
       /\ RecipientLoop(parse_recipients(row.to_raw), <<>>, <<>>).to_emails # <<>>

\* C14: a row whose size field cannot be decoded is not dropped for that:
\* when its timestamp, sender and recipients are valid, the row gives one
\* record with size_bytes = 0, and parse_errors counts only the rows that
\* are invalid otherwise.
C14_UndecodableSizeKeptAsZero ==
    pc \in {"rows", "raised"} =>
        LET lines == iter_raw_lines(FileText(fsys[csv_paths[idx]].lines))
        IN /\ \A j \in 1..rowNo :
                  (SizeUndecodable(lines[j]) /\ OtherwiseValid(lines[j])) =>
                      \E o \in Range(origin), k \in DOMAIN records :
                         /\ o.idx = idx
                         /\ o.row = j
                         /\ records[k].msg_id = o.msg_id
                         /\ records[k].size_bytes = 0
           /\ parse_errors = Cardinality({j \in 1..rowNo : ~OtherwiseValid(lines[j])})

(***************************************************************************)
(* The files processed independently (SpecPar)                             *)
(***************************************************************************)
\* the lines of the files of SpecPar: a row that gives a record, a
\* continuation, a row that is dropped, a row that raises
WorkerLines == {"ok", "cont", "noto", "badsize"}

WorkerContents(n) == {<<>>} \cup {<<"hdr">> \o body : body \in SeqsUpTo(WorkerLines, n)}

\* _ingest_single_csv(csv_path, dataset, start_msg_id) up to the head of its
\* for loop, in a frame of its own
NewWorker(start_msg_id) ==
    [start_msg_id |-> start_msg_id, records |-> <<>>, msg_id |-> start_msg_id,
     parse_errors |-> 0, gen |-> NewGenerator, at |-> "run"]

\* the body of the for loop on the row handled as out, in the frame w
WorkerLoopBody(w, g, out) ==
    CASE out.kind = "drop" ->
           [w EXCEPT !.gen = g, !.parse_errors = @ + 1]
      [] out.kind = "record" ->
           [w EXCEPT !.gen = g, !.records = Append(@, out.record), !.msg_id = @ + 1]
      [] out.kind = "raise" ->
           [w EXCEPT !.gen = [g EXCEPT !.at = "closed"], !.at = "raised"]

\* Once the sequential call has ended, every file of its list gets a frame
\* of _ingest_single_csv of its own, started at the number of rows of the
\* files before it that pass validation.
StartWorkers ==
    /\ pc \in {"done", "raised"}
    /\ via = "ingest"
    /\ workers = <<>>
    /\ workers' = [i \in DOMAIN csv_paths |->
                      NewWorker(ValidRowCount(SubSeq(csv_paths, 1, i - 1)))]
    /\ UNCHANGED <<unit, envVars, cache, handles, pc, loopVars, fileVars, result, via,
                   stdout, calls, edits, prior>>

\* one turn of the for loop of _ingest_single_csv in the frame of any file
\* that has not finished, whatever the other frames have done
WorkerNextRow ==
    \E i \in DOMAIN workers :
      /\ workers[i].at = "run"
      /\ \E step \in {iter_raw_lines_next(FileText(fsys[csv_paths[i]].lines),
                                          workers[i].gen)} :
           IF step.yielded = None
           THEN workers' = [workers EXCEPT ![i].gen = step.gen, ![i].at = "returned"]
           ELSE \E out \in {ingest_row(parse_csv_row(step.yielded), workers[i].msg_id)} :
                  workers' = [workers EXCEPT ![i] = WorkerLoopBody(@, step.gen, out)]
      /\ UNCHANGED <<unit, envVars, cache, handles, pc, loopVars, fileVars, result, via,
                     stdout, calls, edits, prior>>

\* SpecPar: one sequential call of run_ingestion, then the same files each
\* in a frame of its own, the frames taking their turns in any order.
InitPar ==
    /\ \E a \in WorkerContents(MaxLines) :
         \E b \in WorkerContents(MaxLines - BodyLen(a)) :
           fsys = [f \in Files |-> [status |-> "ok", mtime |-> 1,
                                    lines |-> IF f = "a.csv" THEN a ELSE b]]
    /\ dirMtime = 1
    /\ cache = NoCache
    /\ now = 1
    /\ InitFrame
    /\ unit = NoCall

NextPar ==
    \/ CallRunIngestion
    \/ EnterIngestSingleCsv
    \/ NextRow
    \/ LeaveIngestSingleCsv
    \/ FinishIngestion
    \/ StartWorkers
    \/ WorkerNextRow

SpecPar == InitPar /\ [][NextPar]_vars

\* every frame has left its loop
WorkersFinished == workers # <<>> /\ \A i \in DOMAIN workers : workers[i].at # "run"

\* the frames of the files that gave records, in list order
RECURSIVE WorkerFrames(_)
WorkerFrames(i) ==
    IF i > Len(workers) THEN <<>>
    ELSE (IF workers[i].records # <<>> THEN <<chunk_df(workers[i].records)>> ELSE <<>>)
         \o WorkerFrames(i + 1)

\* the table put together from the frames as run_ingestion does from dfs
WorkersTable ==
    IF WorkerFrames(1) = <<>> THEN EmptyDataFrame ELSE concat(WorkerFrames(1))

\* C12: each file processed on its own, started at the number of rows that
\* pass validation in the files before it, the frames interleaved in any
\* order, gives every record the msg_id of the sequential run and the same
\* final table; and the one run raises exactly when the other does.
C12_IndependentFilesSameNumbering ==
    WorkersFinished =>
        /\ (pc = "raised") <=> (\E i \in DOMAIN workers : workers[i].at = "raised")
        /\ pc = "done" =>
             /\ result.table = WorkersTable
             /\ \A o \in Range(origin) :
                    \E k \in DOMAIN workers[o.idx].records :
                       /\ workers[o.idx].records[k].msg_id = o.msg_id
                       /\ k = Cardinality({q \in Range(origin) :
                                              q.idx = o.idx /\ q.row <= o.row})

\* both files gave records, a row was dropped, and all frames have finished
C12_Witness ==
    /\ WorkersFinished
    /\ pc = "done"
    /\ total_errors >= 1
    /\ workers[2].start_msg_id >= 1
    /\ workers[2].records # <<>>

(***************************************************************************)
(* The functions of the ingest package called on their own (SpecUnit)      *)
(***************************************************************************)
\* a function about to be called on arg
Call(fn, arg) == [fn |-> fn, arg |-> arg, done |-> FALSE, ret |-> None]

\* no file in data_dir
EmptyDir == [f \in Files |-> [status |-> "absent", mtime |-> 0, lines |-> <<>>]]

\* --- iter_raw_lines ---
\* a continuation with blanks and a tab around it:
\*   "  K <k@x.org>\t "
Line_padded == <<" ", " ", "K", " ", "<", "k", "@", "x", ".", "o", "r", "g", ">", "\t", " ">>

\* a line of blanks
Line_blank == <<" ", "\t">>

\* a line that starts with a date and no time: a continuation
\*   1/4/2010 x
Line_dateonly == <<"1", "/", "4", "/", "2", "0", "1", "0", " ", "x">>

\* the lines that start a logical line, and the lines that can follow one
JoinerStarts == {Line_ok, Line_noto}

JoinerConts == {Line_cont, Line_padded, Line_blank, <<>>, Line_dateonly}

\* at most this many lines after the date-prefixed line
MaxConts == 3

JoinerInputs ==
    {[start |-> st, conts |-> cs] : st \in JoinerStarts, cs \in SeqsUpTo(JoinerConts, MaxConts)}

\* list(iter_raw_lines(path)) on the header, the start line and the lines after it
CallIterRawLines ==
    /\ unit.fn = "iter_raw_lines"
    /\ ~unit.done
    /\ unit' = [unit EXCEPT !.done = TRUE,
                            !.ret = iter_raw_lines(<<Line_hdr, unit.arg.start>>
                                                   \o unit.arg.conts)]
    /\ UNCHANGED <<workers, envVars, cache, handles, pc, loopVars, fileVars, result, via,
                   stdout, calls, edits, prior>>

\* --- parse_size ---
SizeChars == {"1", ".", "K", " ", "x"}

\* the size strings of SpecUnit have at most this many characters
MaxSizeLen == 4

\* None and every string over SizeChars
SizeInputs == {None} \cup SeqsUpTo(SizeChars, MaxSizeLen)

\* parse_size(s)
CallParseSize ==
    /\ unit.fn = "parse_size"
    /\ ~unit.done
    /\ unit' = [unit EXCEPT !.done = TRUE, !.ret = parse_size(unit.arg)]
    /\ UNCHANGED <<workers, envVars, cache, handles, pc, loopVars, fileVars, result, via,
                   stdout, calls, edits, prior>>

\* --- parse_email_address ---
TokenChars == {"a", "@", ".", "<", ">", "\"", " "}

\* the tokens of SpecUnit have at most this many characters
MaxTokenLen == 5

TokenInputs == SeqsUpTo(TokenChars, MaxTokenLen)

\* parse_email_address(raw)
CallParseEmailAddress ==
    /\ unit.fn = "parse_email_address"
    /\ ~unit.done
    /\ unit' = [unit EXCEPT !.done = TRUE, !.ret = parse_email_address(unit.arg)]
    /\ UNCHANGED <<workers, envVars, cache, handles, pc, loopVars, fileVars, result, via,
                   stdout, calls, edits, prior>>

\* --- resolve_imceaex ---
LegacyHeads ==
    {<<"I", "M", "C", "E", "A", "E", "X", "-", "_", "O", "=", "S", "+", "2", "0", "C",
       "_", "O", "U", "=", "G", "_", "C", "N", "=", "R", "E", "C", "I", "P", "I", "E",
       "N", "T", "S", "_", "C", "N", "=">>,
     <<"i", "m", "c", "e", "a", "e", "x", "-", "_", "o", "=", "s",
       "_", "C", "n", "=", "R", "e", "c", "i", "p", "i", "e", "n", "t", "s", "_", "c",
       "n", "=">>}

LegacyUsers == {<<"B", "H", "o", "p", "p">>, <<"t", "_", "1">>}

DomainChars == {"p", "M", "-", "."}

\* the domains of SpecUnit have at most this many characters
MaxDomainLen == 5

\* labels of letters and hyphens joined by points
Domains ==
    {d \in SeqsUpTo(DomainChars, MaxDomainLen) :
        /\ d # <<>>
        /\ d[1] \notin {"-", "."}
        /\ d[Len(d)] \notin {"-", "."}
        /\ \A i \in 1..(Len(d) - 1) : ~(d[i] \in {"-", "."} /\ d[i + 1] \in {"-", "."})}

LegacyEmails == {h \o u \o <<"@">> \o d : h \in LegacyHeads, u \in LegacyUsers, d \in Domains}

PlainEmails == {u \o <<"@">> \o d : u \in LegacyUsers, d \in Domains}

\* resolve_imceaex(email)
CallResolveImceaex ==
    /\ unit.fn = "resolve_imceaex"
    /\ ~unit.done
    /\ unit' = [unit EXCEPT !.done = TRUE, !.ret = resolve_imceaex(unit.arg)]
    /\ UNCHANGED <<workers, envVars, cache, handles, pc, loopVars, fileVars, result, via,
                   stdout, calls, edits, prior>>

\* --- split_recipients, parse_recipients ---
NameChars == {"H", ",", "\"", " "}

\* the short display names of SpecUnit have at most this many characters
MaxNameLen == 1

TedWarne == <<"T", "e", "d", " ", "W", "a", "r", "n", "e">>

HoppBryan == <<"\"", "H", "o", "p", "p", ",", " ", "B", "r", "y", "a", "n", "\"">>

Names == SeqsUpTo(NameChars, MaxNameLen) \cup {TedWarne, HoppBryan}

\* the email of the i-th entry of a blob
EntryEmails ==
    <<<<"t", "e", "d", "w", "@", "p", "-", "m", ".", "c", "o">>,
      <<"B", "H", "o", "p", "p", "@", "s", "c", ".", "o", "r", "g">>,
      <<"k", "_", "s", "@", "l", ".", "c", "o", "m">>,
      <<"n", ".", "n", "@", "x", ".", "o", "r", "g">>>>

\* a blob of SpecUnit has at most this many entries
MaxEntries == 3

\* 'Name <email>'
Entry(name, email) == name \o <<" ", "<">> \o email \o <<">">>

\* the entries, consecutive ones separated by comma space
RECURSIVE EntriesBlob(_, _)
EntriesBlob(names, i) ==
    IF i > Len(names) THEN <<>>
    ELSE (IF i > 1 THEN <<",", " ">> ELSE <<>>)
         \o Entry(names[i], EntryEmails[i]) \o EntriesBlob(names, i + 1)

EntryBlobs ==
    {[names |-> ns, blob |-> EntriesBlob(ns, 1)] :
        ns \in UNION {[1..k -> Names] : k \in 1..MaxEntries}}

\* split_recipients(to_blob)
CallSplitRecipients ==
    /\ unit.fn = "split_recipients"
    /\ ~unit.done
    /\ unit' = [unit EXCEPT !.done = TRUE, !.ret = split_recipients(unit.arg.blob)]
    /\ UNCHANGED <<workers, envVars, cache, handles, pc, loopVars, fileVars, result, via,
                   stdout, calls, edits, prior>>

\* parse_recipients(to_blob)
CallParseRecipients ==
    /\ unit.fn = "parse_recipients"
    /\ ~unit.done
    /\ unit' = [unit EXCEPT !.done = TRUE, !.ret = parse_recipients(unit.arg.blob)]
    /\ UNCHANGED <<workers, envVars, cache, handles, pc, loopVars, fileVars, result, via,
                   stdout, calls, edits, prior>>

\* --- _ingest_single_csv on one row, for a DatasetConfig ---
\* the hours of a day; after_hours_start and after_hours_end are hours
Hours == 0..23

\* the hour as the export writes it: no leading zero
HourText(h) == IF h < 10 THEN NatToDigits(h, 1) ELSE NatToDigits(h, 2)

\* a row that parses, at the given hour:
\*   1/4/2010 H:30,1K,<a@b.c>,<d@e.f>
LineAtHour(h) ==
    <<"1", "/", "4", "/", "2", "0", "1", "0", " ">> \o HourText(h)
    \o <<":", "3", "0", ",", "1", "K", ",", "<", "a", "@", "b", ".", "c", ">", ",",
         "<", "d", "@", "e", ".", "f", ">">>

\* the rows of SpecUnit, one for each hour
HourInputs == [hour : Hours]

\* _ingest_single_csv on a file of one row, with a DatasetConfig whose
\* after_hours_start and after_hours_end are any hours: the DataFrame it
\* returns; the configuration is kept with the argument
CallIngestSingleCsv ==
    /\ unit.fn = "_ingest_single_csv"
    /\ ~unit.done
    /\ \E out \in {ingest_row(parse_csv_row(LineAtHour(unit.arg.hour)), 0)} :
          \E start, end \in Hours :
             unit' = [unit EXCEPT
                         !.done = TRUE,
                         !.arg = [hour |-> unit.arg.hour, after_hours_start |-> start,
                                  after_hours_end |-> end],
                         !.ret = DatasetChunk(
                                     IF out.kind = "record" THEN <<out.record>> ELSE <<>>,
                                     [after_hours_start |-> start,
                                      after_hours_end |-> end,
                                      weekend_days |-> weekend_days])]
    /\ UNCHANGED <<workers, envVars, cache, handles, pc, loopVars, fileVars, result, via,
                   stdout, calls, edits, prior>>

\* the raw To blobs of SpecUnit: no entries named, any text
BlobChars == {"a", "<", ">", ",", " "}

\* the raw blobs of SpecUnit have at most this many characters
MaxBlobLen == 5

RawBlobs == {[names |-> <<>>, blob |-> b] : b \in SeqsUpTo(BlobChars, MaxBlobLen)}

\* the To blobs of SpecUnit without a bracket: names, quotes and commas
BareChars == {"a", ",", "\"", " ", "@"}

\* the blobs without a bracket have at most this many characters
MaxBareLen == 5

BareBlobs == {[names |-> <<>>, blob |-> b] : b \in SeqsUpTo(BareChars, MaxBareLen)}

\* --- normalize_name ---
DisplayChars == {"A", "b", ",", " ", "@"}

\* the display names given to normalize_name have at most this many characters
MaxDisplayLen == 5

DisplayNames == SeqsUpTo(DisplayChars, MaxDisplayLen)

\* normalize_name(name)
CallNormalizeName ==
    /\ unit.fn = "normalize_name"
    /\ ~unit.done
    /\ unit' = [unit EXCEPT !.done = TRUE, !.ret = normalize_name(unit.arg)]
    /\ UNCHANGED <<workers, envVars, cache, handles, pc, loopVars, fileVars, result, via,
                   stdout, calls, edits, prior>>

\* the calls of SpecUnit
UnitCalls ==
    {Call("iter_raw_lines", x) : x \in JoinerInputs}
    \cup {Call("parse_size", x) : x \in SizeInputs}
    \cup {Call("parse_email_address", x) : x \in TokenInputs}
    \cup {Call("resolve_imceaex", x) : x \in LegacyEmails \cup PlainEmails}
    \cup {Call(fn, x) : fn \in {"split_recipients", "parse_recipients"}, x \in EntryBlobs}
    \cup {Call("_ingest_single_csv", x) : x \in HourInputs}
    \cup {Call("split_recipients", x) : x \in RawBlobs}
    \cup {Call("split_recipients", x) : x \in BareBlobs}
    \cup {Call("normalize_name", x) : x \in DisplayNames}

\* SpecUnit: one function called once on one argument of its input set
InitUnit ==
    /\ fsys = EmptyDir
    /\ dirMtime = 1
    /\ cache = NoCache
    /\ now = 1
    /\ InitFrame
    /\ unit \in UnitCalls

NextUnit ==
    \/ CallIterRawLines
    \/ CallParseSize
    \/ CallParseEmailAddress
    \/ CallResolveImceaex
    \/ CallSplitRecipients
    \/ CallParseRecipients
    \/ CallIngestSingleCsv
    \/ CallNormalizeName

SpecUnit == InitUnit /\ [][NextUnit]_vars

\* the call of fn has returned
Called(fn) == unit.fn = fn /\ unit.done

\* each line trimmed
Trimmed(lines) == [i \in DOMAIN lines |-> Strip(lines[i])]

NonBlank(line) == Strip(line) # <<>>

\* C13 as stated: for the header, one date-prefixed line and N lines that
\* are not date-prefixed, iter_raw_lines emits one logical line, the start
\* line followed by the N trimmed fragments, joined by single spaces.
C13_JoinsEveryContinuation ==
    Called("iter_raw_lines") =>
        unit.ret = <<Join(<<unit.arg.start>> \o Trimmed(unit.arg.conts), <<" ">>)>>

\* C13, with the blank lines left out: iter_raw_lines emits one logical
\* line, the start line followed by the trimmed fragments of the lines that
\* are not blank, joined by single spaces in their order.
C13_JoinsNonBlankContinuations ==
    Called("iter_raw_lines") =>
        unit.ret = <<Join(<<unit.arg.start>>
                          \o Trimmed(SelectSeq(unit.arg.conts, NonBlank)), <<" ">>)>>

\* three lines after the start line, a blank one before one that is not
C13_Witness ==
    /\ Called("iter_raw_lines")
    /\ Len(unit.arg.conts) = 3
    /\ ~NonBlank(unit.arg.conts[1])
    /\ unit.arg.conts[3] = Line_dateonly
    /\ Len(unit.ret) = 1

\* optional whitespace, one integer or decimal literal (digits with at
\* most one point), optional whitespace and one optional suffix of B, K, M, G
OfSizeShape(s) ==
    LET t == Strip(s)
    IN \E n \in 1..Len(t) :
          LET number == SubSeq(t, 1, n)
              rest == SubSeq(t, n + 1, Len(t))
          IN /\ AllIn(number, Digits \cup {"."})
             /\ \E i \in DOMAIN number : number[i] \in Digits
             /\ Cardinality({i \in DOMAIN number : number[i] = "."}) <= 1
             /\ \/ rest = <<>>
                \/ /\ rest[Len(rest)] \in SizeSuffixChars
                   /\ AllIn(SubSeq(rest, 1, Len(rest) - 1), Whitespace)

\* C15: parse_size returns None, and does not raise, for every input that
\* is None, empty or not of the shape of a size.
C15_NullForEveryOtherShape ==
    (Called("parse_size") /\ (unit.arg = None \/ ~OfSizeShape(unit.arg))) =>
        unit.ret.tag = "None"

\* t has a bracketed part: "<", at least one character other than ">", ">"
HasBracketedPart(t) ==
    \E i, j \in DOMAIN t :
        /\ i + 1 < j
        /\ t[i] = "<"
        /\ t[j] = ">"
        /\ \A k \in (i + 1)..(j - 1) : t[k] # ">"

\* t holds a bare user@host shape: a local character, "@", host characters,
\* a point and a word character
HasBareShape(t) ==
    \E at, dot \in DOMAIN t :
        /\ 1 < at
        /\ at + 1 < dot
        /\ dot < Len(t)
        /\ t[at - 1] \in BareLocalChars
        /\ t[at] = "@"
        /\ \A k \in (at + 1)..(dot - 1) : t[k] \in BareDomainChars
        /\ t[dot] = "."
        /\ t[dot + 1] \in WordChars

\* the failure sentinel ("", "")
NoAddress == <<<<>>, <<>>>>

\* C16: parse_email_address returns ("", "") for every token that is
\* nothing but quotes and whitespace, and for every token that holds neither
\* a bracketed part nor a bare user@host shape.
C16_SentinelForUnmatchable ==
    (/\ Called("parse_email_address")
     /\ \/ AllIn(unit.arg, Whitespace \cup {"\"", "'"})
        \/ ~HasBracketedPart(unit.arg) /\ ~HasBareShape(unit.arg))
    => unit.ret = NoAddress

\* a token with an "@" and brackets that close nothing, and no address in it
C16_Witness ==
    /\ Called("parse_email_address")
    /\ Len(unit.arg) = MaxTokenLen
    /\ \E i, j, k \in DOMAIN unit.arg :
          unit.arg[i] = "@" /\ unit.arg[j] = "<" /\ unit.arg[k] = "."
    /\ ~HasBracketedPart(unit.arg)
    /\ ~HasBareShape(unit.arg)
    /\ unit.ret = NoAddress

\* C17: for a raw email IMCEAEX-...CN=RECIPIENTS_CN=<user>@<domain>, in
\* either case, resolve_imceaex returns lower(user)@lower(domain) with the
\* whole domain, a hyphenated one included; any other raw email is returned
\* lower-cased.
C17_LegacyResolvedWithWholeDomain ==
    Called("resolve_imceaex") =>
        /\ \A h \in LegacyHeads, u \in LegacyUsers, d \in Domains :
              unit.arg = h \o u \o <<"@">> \o d
              => unit.ret = Lower(u) \o <<"@">> \o Lower(d)
        /\ unit.arg \in PlainEmails => unit.ret = Lower(unit.arg)

\* s ends with the characters of tail
EndsWithAll(s, tail) ==
    /\ Len(tail) <= Len(s)
    /\ SubSeq(s, Len(s) - Len(tail) + 1, Len(s)) = tail

\* C18: a blob of k >= 1 entries 'Name <email>', consecutive entries
\* separated by comma space after the '>', the names holding commas and
\* quotes but no '>': split_recipients gives exactly k tokens, the i-th
\* being the i-th entry's and ending in '>', and parse_recipients gives the
\* k emails (normalised to lower case) in that order.
C18_OneTokenPerEntry ==
    /\ (Called("split_recipients") /\ unit.arg.names # <<>>) =>
          /\ Len(unit.ret) = Len(unit.arg.names)
          /\ \A i \in DOMAIN unit.ret :
                EndsWithAll(unit.ret[i], <<"<">> \o EntryEmails[i] \o <<">">>)
    /\ (Called("parse_recipients") /\ unit.arg.names # <<>>) =>
          /\ Len(unit.ret) = Len(unit.arg.names)
          /\ \A i \in DOMAIN unit.ret : unit.ret[i][2] = Lower(EntryEmails[i])

\* three entries whose names are a quoted name with a comma, a comma and a quote
C18_Witness ==
    /\ Called("parse_recipients")
    /\ Len(unit.arg.names) = MaxEntries
    /\ unit.arg.names[1] = HoppBryan
    /\ unit.arg.names[2] = <<",">>
    /\ unit.arg.names[3] = <<"\"">>
    /\ Len(unit.ret) = MaxEntries
    /\ unit.ret[1] = <<<<"H", "o", "p", "p", ",", " ", "B", "r", "y", "a", "n">>,
                       Lower(EntryEmails[1])>>

\* C19: for every hour of the record's timestamp and every configured
\* after_hours_start and after_hours_end in 0..23, windows with
\* start < end included, the record's hour is the hour of its timestamp and
\* its is_after_hours is (hour >= after_hours_start) or (hour < after_hours_end).
C19_AfterHoursIsEitherComparison ==
    Called("_ingest_single_csv") =>
        /\ Len(unit.ret.rows) = 1
        /\ unit.ret.rows[1].timestamp.hour = unit.arg.hour
        /\ unit.ret.rows[1].hour = unit.arg.hour
        /\ unit.ret.rows[1].is_after_hours
           <=> (\/ unit.arg.hour >= unit.arg.after_hours_start
                \/ unit.arg.hour < unit.arg.after_hours_end)

\* a window that does not wrap (9 to 17), and a record at noon inside it
C19_Witness ==
    /\ Called("_ingest_single_csv")
    /\ unit.arg = [hour |-> 12, after_hours_start |-> 9, after_hours_end |-> 17]
    /\ unit.ret.rows[1].hour = 12
    /\ unit.ret.rows[1].is_after_hours

HasBracket(blob) == \E i \in DOMAIN blob : blob[i] = ">"

\* C20 as stated: for every blob that holds a '>', every token that
\* split_recipients returns ends with '>', the one of the last part included.
C20_EveryTokenEndsWithBracket ==
    (Called("split_recipients") /\ HasBracket(unit.arg.blob))
    => \A i \in DOMAIN unit.ret : EndsWith(unit.ret[i], ">")

\* C20: for every blob that holds a '>', every returned token but the last
\* ends with '>'; the last token ends with '>' too unless it is the last
\* part, which is returned as it stands at the end of the blob (trailing
\* commas and whitespace apart), with no '>' appended.
C20_EveryTokenButTheLastPart ==
    (Called("split_recipients") /\ HasBracket(unit.arg.blob))
    => /\ \A i \in 1..(Len(unit.ret) - 1) : EndsWith(unit.ret[i], ">")
       /\ \A i \in DOMAIN unit.ret : unit.ret[i] # <<>>
       /\ (unit.ret # <<>> /\ ~EndsWith(unit.ret[Len(unit.ret)], ">"))
          => \E n \in 0..Len(unit.arg.blob) :
                /\ EndsWithAll(SubSeq(unit.arg.blob, 1, n), unit.ret[Len(unit.ret)])
                /\ AllIn(SubSeq(unit.arg.blob, n + 1, Len(unit.arg.blob)),
                         Whitespace \cup {","})

\* 'a>, a': the first part gets its '>' back, the last part has none
C20_Witness ==
    /\ Called("split_recipients")
    /\ unit.arg.blob = <<"a", ">", ",", " ", "a">>
    /\ unit.ret = <<<<"a", ">">>, <<"a">>>>

(***************************************************************************)
(* The loops of csv_parser.py, one step at a time (SpecScan)               *)
(***************************************************************************)
\* the frame of _parse_csv_fields(line) at its first statement; i counts
\* from 0 as in the code, and line[i] of the code is unit.arg[i + 1]
ScanFrame(line) ==
    [fn |-> "_parse_csv_fields", arg |-> line, done |-> FALSE, ret |-> None,
     fields |-> <<>>, current |-> <<>>, in_quotes |-> FALSE, i |-> 0]

FieldChars == {"a", ",", "\"", " "}

\* the lines given to _parse_csv_fields have at most this many characters
MaxScanLen == 6

ScanInputs == SeqsUpTo(FieldChars, MaxScanLen)

\* if ch == '"': a doubled quote always toggles, like any other
ScanQuote_AlwaysToggle(u) ==
    [u EXCEPT !.in_quotes = ~u.in_quotes, !.i = u.i + 1]

\* if ch == '"': the frame after the branch
ScanQuote(u) ==
    IF u.in_quotes
    THEN IF u.i + 1 < Len(u.arg) /\ u.arg[u.i + 2] = "\""
         THEN [u EXCEPT !.current = Append(u.current, "\""), !.i = u.i + 2]
         ELSE [u EXCEPT !.in_quotes = FALSE, !.i = u.i + 1]
    ELSE [u EXCEPT !.in_quotes = TRUE, !.i = u.i + 1]

\* if ch == ',' and not in_quotes: the frame after the branch, which
\* returns once three fields are closed and leaves the rest of the line
\* with only its trailing commas of the very end removed
ScanComma_OneTrim(u) ==
    LET closed == Append(u.fields, Strip(u.current))
    IN IF Len(closed) = 3
       THEN [u EXCEPT !.fields = closed, !.current = <<>>, !.done = TRUE,
                      !.ret = Append(closed,
                                     RStripChars(Slice(u.arg, u.i + 2, Len(u.arg)),
                                                 {","}))]
       ELSE [u EXCEPT !.fields = closed, !.current = <<>>, !.i = u.i + 1]

\* if ch == ',' and not in_quotes: the frame after the branch, which
\* returns once three fields are closed
ScanComma(u) ==
    LET closed == Append(u.fields, Strip(u.current))
    IN IF Len(closed) = 3
       THEN LET to_blob == Strip(Slice(u.arg, u.i + 2, Len(u.arg)))
            IN [u EXCEPT !.fields = closed, !.current = <<>>, !.done = TRUE,
                         !.ret = Append(closed, Strip(RStripChars(to_blob, {","})))]
       ELSE [u EXCEPT !.fields = closed, !.current = <<>>, !.i = u.i + 1]

\* one pass of `while i < n` in _parse_csv_fields
ScanStep ==
    /\ unit.fn = "_parse_csv_fields"
    /\ ~unit.done
    /\ unit.i < Len(unit.arg)
    /\ \E ch \in {unit.arg[unit.i + 1]} :
          \/ /\ ch = "\""
             /\ unit' = ScanQuote(unit)
          \/ /\ ch = "," /\ ~unit.in_quotes
             /\ unit' = ScanComma(unit)
          \/ /\ ch # "\"" /\ ~(ch = "," /\ ~unit.in_quotes)
             /\ unit' = [unit EXCEPT !.current = Append(unit.current, ch),
                                     !.i = unit.i + 1]
    /\ UNCHANGED <<workers, envVars, cache, handles, pc, loopVars, fileVars, result, via,
                   stdout, calls, edits, prior>>

\* after the loop, padding with the current text wherever a field is missing
ScanFlush_PadWithCurrent(u) ==
    LET flushed == Append(u.fields, Strip(u.current))
    IN [u EXCEPT !.fields = flushed, !.done = TRUE,
                 !.ret = [k \in 1..4 |-> IF k <= Len(flushed) THEN flushed[k]
                                          ELSE Strip(u.current)]]

\* after the loop: flush remaining, pad to 4 fields, return fields[:4]
ScanFlush(u) ==
    LET flushed == Append(u.fields, Strip(u.current))
    IN [u EXCEPT !.fields = flushed, !.done = TRUE,
                 !.ret = [k \in 1..4 |-> IF k <= Len(flushed) THEN flushed[k]
                                          ELSE <<>>]]

\* the loop of _parse_csv_fields has ended without a return
ScanEnd ==
    /\ unit.fn = "_parse_csv_fields"
    /\ ~unit.done
    /\ unit.i >= Len(unit.arg)
    /\ unit' = ScanFlush(unit)
    /\ UNCHANGED <<workers, envVars, cache, handles, pc, loopVars, fileVars, result, via,
                   stdout, calls, edits, prior>>

\* --- iter_raw_lines, one physical line at a time ---
\* the frame of iter_raw_lines over a file holding lines, before the header
\* is read; pos is the index of the next physical line, ret the logical
\* lines yielded so far
LinesFrame(lines) ==
    [fn |-> "iter_raw_lines", arg |-> lines, done |-> FALSE, ret |-> <<>>,
     at |-> "header", pos |-> 1, current_line |-> None]

\* a date-prefixed line after whitespace: a continuation
Line_indented == <<" ">> \o Line_noto

PhysicalLines ==
    {Line_ok, Line_noto, Line_cont, Line_padded, Line_blank, <<>>, Line_dateonly,
     Line_indented}

\* the files of SpecScan have at most this many physical lines, the header included
MaxFileLines == 4

LinesInputs == SeqsUpTo(PhysicalLines, MaxFileLines)

\* header = f.readline(); if not header: return
SkipHeader(u) ==
    IF u.arg = <<>>
    THEN [u EXCEPT !.done = TRUE, !.at = "closed"]
    ELSE [u EXCEPT !.at = "loop", !.pos = 2]

\* the body of the for loop where a line before the first date-prefixed
\* line starts a logical line
TakeLine_OrphanStarts(u) ==
    LET raw_line == RStripChars(RStripChars(u.arg[u.pos], {"\n"}), {"\r"})
    IN IF Strip(raw_line) = <<>>
       THEN [u EXCEPT !.pos = u.pos + 1]
       ELSE IF DateStartMatch(raw_line)
            THEN [u EXCEPT !.pos = u.pos + 1,
                           !.ret = IF u.current_line # None
                                   THEN Append(u.ret, u.current_line) ELSE u.ret,
                           !.current_line = raw_line]
            ELSE [u EXCEPT !.pos = u.pos + 1,
                           !.current_line = IF u.current_line # None
                                            THEN u.current_line \o <<" ">> \o Strip(raw_line)
                                            ELSE raw_line]

\* the body of the for loop on the physical line at pos
TakeLine(u) ==
    LET raw_line == RStripChars(RStripChars(u.arg[u.pos], {"\n"}), {"\r"})
    IN IF Strip(raw_line) = <<>>
       THEN [u EXCEPT !.pos = u.pos + 1]
       ELSE IF DateStartMatch(raw_line)
            THEN [u EXCEPT !.pos = u.pos + 1,
                           !.ret = IF u.current_line # None
                                   THEN Append(u.ret, u.current_line) ELSE u.ret,
                           !.current_line = raw_line]
            ELSE IF u.current_line # None
                 THEN [u EXCEPT !.pos = u.pos + 1,
                                !.current_line =
                                    u.current_line \o <<" ">> \o Strip(raw_line)]
                 ELSE [u EXCEPT !.pos = u.pos + 1]

\* after the for loop, returning without the buffered line
EndOfFile_NoFlush(u) ==
    [u EXCEPT !.done = TRUE, !.at = "closed"]

\* after the for loop: if current_line is not None: yield current_line
EndOfFile(u) ==
    [u EXCEPT !.done = TRUE, !.at = "closed",
              !.ret = IF u.current_line # None THEN Append(u.ret, u.current_line)
                      ELSE u.ret]

ReadHeader ==
    /\ unit.fn = "iter_raw_lines"
    /\ ~unit.done
    /\ unit.at = "header"
    /\ unit' = SkipHeader(unit)
    /\ UNCHANGED <<workers, envVars, cache, handles, pc, loopVars, fileVars, result, via,
                   stdout, calls, edits, prior>>

ReadLine ==
    /\ unit.fn = "iter_raw_lines"
    /\ ~unit.done
    /\ unit.at = "loop"
    /\ unit.pos <= Len(unit.arg)
    /\ unit' = TakeLine(unit)
    /\ UNCHANGED <<workers, envVars, cache, handles, pc, loopVars, fileVars, result, via,
                   stdout, calls, edits, prior>>

ReadEnd ==
    /\ unit.fn = "iter_raw_lines"
    /\ ~unit.done
    /\ unit.at = "loop"
    /\ unit.pos > Len(unit.arg)
    /\ unit' = EndOfFile(unit)
    /\ UNCHANGED <<workers, envVars, cache, handles, pc, loopVars, fileVars, result, via,
                   stdout, calls, edits, prior>>

\* the calls of SpecScan
ScanCalls ==
    {ScanFrame(x) : x \in ScanInputs} \cup {LinesFrame(x) : x \in LinesInputs}

InitScan ==
    /\ fsys = EmptyDir
    /\ dirMtime = 1
    /\ cache = NoCache
    /\ now = 1
    /\ InitFrame
    /\ unit \in ScanCalls

NextScan ==
    \/ ScanStep
    \/ ScanEnd
    \/ ReadHeader
    \/ ReadLine
    \/ ReadEnd

SpecScan == InitScan /\ [][NextScan]_vars

\* the commas of line that stand outside double quotes: those with an even
\* number of double quotes before them
QuotesBefore(line, p) == Cardinality({q \in 1..(p - 1) : line[q] = "\""})

UnquotedCommas(line) ==
    {p \in DOMAIN line : line[p] = "," /\ QuotesBefore(line, p) % 2 = 0}

\* the k-th smallest element of a set of numbers
Nth(S, k) == CHOOSE p \in S : Cardinality({q \in S : q < p}) = k - 1

\* text without its double quotes
NoQuotes(s) == SelectSeq(s, LAMBDA c : c # "\"")

\* the stepwise scan returns what the one-expression scan returns
ScanAgreesWithParse ==
    Called("_parse_csv_fields") => unit.ret = parse_csv_fields(unit.arg)

\* the text of line between its (k-1)-th and k-th unquoted comma, or up
\* to the end of the line when it has no k-th one
Segment(line, k) ==
    LET C == UnquotedCommas(line)
        from == IF k = 1 THEN 1 ELSE Nth(C, k - 1) + 1
        to == IF k <= Cardinality(C) THEN Nth(C, k) - 1 ELSE Len(line)
    IN Slice(line, from, to)

\* field is the text of segment: the same characters, quotes and
\* surrounding whitespace apart
SameText(field, segment) == Strip(NoQuotes(field)) = Strip(NoQuotes(segment))

\* blob is rest without whitespace and commas at its ends, and nothing else
\* removed
TrimmedOf(blob, rest) ==
    \E a \in 1..(Len(rest) + 1), b \in 0..Len(rest) :
        /\ blob = Slice(rest, a, b)
        /\ AllIn(Slice(rest, 1, a - 1), Whitespace)
        /\ AllIn(Slice(rest, b + 1, Len(rest)), Whitespace \cup {","})

\* C22: for every line with at least three commas outside double quotes,
\* the date, size and from fields end at exactly the first three of them,
\* and the fourth field is the text after the third, unscanned (its quotes
\* kept) apart from trimming.
C22_FieldsEndAtUnquotedCommas ==
    (Called("_parse_csv_fields") /\ Cardinality(UnquotedCommas(unit.arg)) >= 3)
    => /\ Len(unit.ret) = 4
       /\ \A k \in 1..3 : SameText(unit.ret[k], Segment(unit.arg, k))
       /\ TrimmedOf(unit.ret[4],
                    Slice(unit.arg, Nth(UnquotedCommas(unit.arg), 3) + 1, Len(unit.arg)))
       /\ unit.ret[4] = Strip(unit.ret[4])

\* '",",,,': the comma inside the quotes ends no field, the three after it
\* end the date, size and from fields
C22_Witness ==
    /\ Called("_parse_csv_fields")
    /\ unit.arg = <<"\"", ",", "\"", ",", ",", ",">>
    /\ unit.ret = <<<<",">>, <<>>, <<>>, <<>>>>

\* C23: for every line with at least three unquoted commas the fourth field
\* never ends with a comma, also when whitespace stands between the
\* trailing commas.
C23_NoTrailingComma ==
    (Called("_parse_csv_fields") /\ Cardinality(UnquotedCommas(unit.arg)) >= 3)
    => ~EndsWith(unit.ret[4], ",")

\* C24: _parse_csv_fields returns exactly four fields for every line; when
\* the line ends before three unquoted commas, the fields closed so far and
\* the text accumulated so far come first, in order, and every missing
\* field is the empty string.
C24_AlwaysFourFields ==
    Called("_parse_csv_fields")
    => /\ Len(unit.ret) = 4
       /\ \A n \in 0..2 :
             Cardinality(UnquotedCommas(unit.arg)) = n
             => /\ \A k \in 1..(n + 1) : SameText(unit.ret[k], Segment(unit.arg, k))
                /\ \A k \in (n + 2)..4 : unit.ret[k] = <<>>

\* 'a,"a,a': one unquoted comma, a quote that is never closed
C24_Witness ==
    /\ Called("_parse_csv_fields")
    /\ unit.arg = <<"a", ",", "\"", "a", ",", "a">>
    /\ unit.in_quotes
    /\ unit.ret = <<<<"a">>, <<"a", ",", "a">>, <<>>, <<>>>>

\* C25: while the first three fields are scanned, a double quote toggles
\* in_quotes and adds nothing, except that two consecutive double quotes
\* met while in_quotes is true add one quote character to the current field
\* and leave in_quotes true.
C25_DoubledQuoteIsLiteral ==
    [][(/\ unit.fn = "_parse_csv_fields"
        /\ ~unit.done
        /\ unit.i < Len(unit.arg)
        /\ unit.arg[unit.i + 1] = "\"")
       => IF /\ unit.in_quotes
             /\ unit.i + 1 < Len(unit.arg)
             /\ unit.arg[unit.i + 2] = "\""
          THEN /\ unit'.in_quotes
               /\ unit'.current = Append(unit.current, "\"")
               /\ unit'.i = unit.i + 2
               /\ unit'.fields = unit.fields
          ELSE /\ unit'.in_quotes = ~unit.in_quotes
               /\ unit'.current = unit.current
               /\ unit'.i = unit.i + 1
               /\ unit'.fields = unit.fields]_vars

\* '"a""a"': the doubled quote was taken as one character of the field,
\* the last quote closed the quoted section
C25_Witness ==
    /\ Called("_parse_csv_fields")
    /\ unit.arg = <<"\"", "a", "\"", "\"", "a", "\"">>
    /\ ~unit.in_quotes
    /\ unit.ret[1] = <<"a", "\"", "a">>

\* the physical lines after the header that begin with the date pattern
StartLines(lines) == {p \in 2..Len(lines) : DateStartMatch(lines[p])}

\* the stepwise reading yields what the generator yields
ReadAgreesWithGenerator ==
    Called("iter_raw_lines") => unit.ret = iter_raw_lines(unit.arg)

\* C26: in iter_raw_lines the first physical line is skipped whatever it
\* holds; a blank or whitespace-only line changes neither the buffered line
\* nor the output; a line without the date prefix met while nothing is
\* buffered changes neither.
C26_HeaderBlankAndOrphanLeaveNoTrace ==
    [][(unit.fn = "iter_raw_lines" /\ ~unit.done)
       => /\ unit.at = "header"
             => unit'.ret = <<>> /\ unit'.current_line = None
          /\ (/\ unit.at = "loop"
              /\ unit.pos <= Len(unit.arg)
              /\ \/ AllIn(unit.arg[unit.pos], Whitespace)
                 \/ ~DateStartMatch(unit.arg[unit.pos]) /\ unit.current_line = None)
             => /\ unit'.ret = unit.ret
                /\ unit'.current_line = unit.current_line
                /\ unit'.pos = unit.pos + 1]_vars

\* a date-prefixed header, a fragment, a blank line and then the first
\* date-prefixed line: that line alone is yielded
C26_Witness ==
    /\ Called("iter_raw_lines")
    /\ unit.arg = <<Line_ok, Line_cont, Line_blank, Line_noto>>
    /\ unit.ret = <<Line_noto>>

\* C28: iter_raw_lines yields as many logical lines as there are physical
\* lines after the header that begin with the date pattern; every logical
\* line begins with the date pattern; the k-th logical line starts with the
\* k-th such physical line, the last one being yielded at the end of input.
C28_OneLogicalLinePerStartLine ==
    Called("iter_raw_lines")
    => /\ Len(unit.ret) = Cardinality(StartLines(unit.arg))
       /\ \A k \in DOMAIN unit.ret :
             /\ DateStartMatch(unit.ret[k])
             /\ \E start \in {unit.arg[Nth(StartLines(unit.arg), k)]} :
                   /\ Len(start) <= Len(unit.ret[k])
                   /\ SubSeq(unit.ret[k], 1, Len(start)) = start

\* two start lines with a fragment after each: two logical lines in order,
\* the second yielded at the end of input
C28_Witness ==
    /\ Called("iter_raw_lines")
    /\ unit.arg = <<Line_dateonly, Line_noto, Line_cont, Line_ok>>
    /\ Len(unit.ret) = 2
    /\ unit.ret[1] = Line_noto \o <<" ">> \o Strip(Line_cont)
    /\ unit.ret[2] = Line_ok

\* C21: for a blob with no brackets, split_recipients splits only at
\* commas outside double quotes: there is at most one token more than there
\* are such commas, and a blob whose quotes are closed gives no token with
\* an unclosed quote.
C21_BareSplitOnUnquotedCommas ==
    (/\ Called("split_recipients")
     /\ \A i \in DOMAIN unit.arg.blob : unit.arg.blob[i] \notin {"<", ">"})
    => /\ Len(unit.ret) <= Cardinality(UnquotedCommas(unit.arg.blob)) + 1
       /\ QuotesBefore(unit.arg.blob, Len(unit.arg.blob) + 1) % 2 = 0
          => \A k \in DOMAIN unit.ret :
                QuotesBefore(unit.ret[k], Len(unit.ret[k]) + 1) % 2 = 0

\* the number of commas of s
Commas(s) == Cardinality({i \in DOMAIN s : s[i] = ","})

\* the name trimmed, dequoted and with its whitespace collapsed
CleanedName(name) == CollapseWhitespace(StripQuotes(name))

\* C27: normalize_name reorders only when the cleaned name has exactly one
\* comma, non-empty text on both sides of it and no '@'; a name with two or
\* more commas is returned as cleaned, without reordering.
C27_ReordersOnlyOnOneComma ==
    Called("normalize_name")
    => /\ Commas(CleanedName(unit.arg)) >= 2 => unit.ret = CleanedName(unit.arg)
       /\ unit.ret # CleanedName(unit.arg)
          => /\ Commas(CleanedName(unit.arg)) = 1
             /\ \A i \in DOMAIN unit.arg : unit.arg[i] # "@"

(***************************************************************************)
(* Addresses in mixed case, alone and in a row (SpecAddr)                  *)
(***************************************************************************)
CaseChars == {"A", "@", ".", "<", ">", " "}

\* the address tokens of SpecAddr have at most this many characters
MaxCaseLen == 5

CaseTokens == SeqsUpTo(CaseChars, MaxCaseLen)

\* a row whose sender and recipient blob are both the token:
\*   1/4/2010 18:30,1K,token,token
RowLine(token) ==
    <<"1", "/", "4", "/", "2", "0", "1", "0", " ", "1", "8", ":", "3", "0", ",",
      "1", "K", ",">> \o token \o <<",">> \o token

\* the body of the for loop of _ingest_single_csv on the row of parse_csv
\* for that line
CallIngestRow ==
    /\ unit.fn = "ingest_row"
    /\ ~unit.done
    /\ unit' = [unit EXCEPT !.done = TRUE,
                            !.ret = ingest_row(parse_csv_row(RowLine(unit.arg)), 0)]
    /\ UNCHANGED <<workers, envVars, cache, handles, pc, loopVars, fileVars, result, via,
                   stdout, calls, edits, prior>>

\* the calls of SpecAddr
AddrCalls == {Call(fn, x) : fn \in {"parse_email_address", "ingest_row"}, x \in CaseTokens}

InitAddr ==
    /\ fsys = EmptyDir
    /\ dirMtime = 1
    /\ cache = NoCache
    /\ now = 1
    /\ InitFrame
    /\ unit \in AddrCalls

NextAddr ==
    \/ CallParseEmailAddress
    \/ CallIngestRow

SpecAddr == InitAddr /\ [][NextAddr]_vars

\* no capital letter, no whitespace at either end, and normalize_email
\* gives it back
Normalised(email) ==
    /\ \A i \in DOMAIN email : \A k \in DOMAIN UpperChars : email[i] # UpperChars[k]
    /\ email # <<>> => email[1] \notin Whitespace /\ email[Len(email)] \notin Whitespace
    /\ normalize_email(email) = email

\* the row was kept as a record
Emitted == Called("ingest_row") /\ unit.ret.kind = "record"

\* C29: every email returned by parse_email_address, and every from_email
\* and to_emails entry of an emitted record, is lower-case with no
\* whitespace at its ends, and normalize_email leaves it as it is.
C29_EmailsAreNormalised ==
    /\ Called("parse_email_address") => Normalised(unit.ret[2])
    /\ Emitted => /\ Normalised(unit.ret.record.from_email)
                  /\ \A k \in DOMAIN unit.ret.record.to_emails :
                        Normalised(unit.ret.record.to_emails[k])

\* '< A >': the capital and the blanks inside the brackets are gone
C29_Witness ==
    /\ Called("parse_email_address")
    /\ unit.arg = <<"<", " ", "A", " ", ">">>
    /\ unit.ret[2] = <<"a">>

\* user@host with a user and a host
HasUserAtHost(email) == \E i \in 2..(Len(email) - 1) : email[i] = "@"

=============================================================================
